---- MODULE Spec2Model ----
(***************************************************************************)
(* Model of the read-only command channel of cisco-mcp                     *)
(* (cisco_mcp/ssh_client.py): the command validator, the redactor, the     *)
(* device session CiscoSSHClient and the SSHConnectionPool; of the output  *)
(* parsers and issue extractors (cisco_mcp/parsers); of the cache commands *)
(* of my-tool (my_tool/cli.py); and of call_llm of the skill evolver.      *)
(*                                                                         *)
(* Text is a sequence of one-character strings, so that strip, lower,      *)
(* startswith and the regular expressions are computed character by        *)
(* character.  The pool is an asyncio program: one action is the code one  *)
(* coroutine runs between two suspension points (a contended lock, the     *)
(* awaited connect, the awaited run, the awaited wait_closed).             *)
(***************************************************************************)
EXTENDS Integers, Sequences, FiniteSets, TLC

VARIABLES
    vcmd,        \* validate_command: the command under validation
    verdict,     \* validate_command: "pending", "ok" or "InvalidCommandError"
    connections, \* SSHConnectionPool._connections: host -> client id
    lock,        \* SSHConnectionPool._lock: the coroutine holding it, or NoTask
    clients,     \* CiscoSSHClient objects: id -> [host, connection]
    pc,          \* position of every coroutine
    arg,         \* arguments of every pool call: [host, command, label]
    client,      \* local variable `client` of every coroutine
    outcome,     \* what every coroutine returned or raised
    captured,    \* text the device sent to every coroutine's run (raw)
    calls,       \* transport calls made on behalf of every coroutine, and the line sent
    established, \* per host: transport connections established since close_all
    batch,       \* execute_on_multiple: hosts, hostnames, command, state, results
    doneOrder,   \* order in which the batch's per-device coroutines completed
    todo,        \* close_all: clients still to disconnect
    rinput,      \* mask_sensitive_output: the text first handed to it
    rtext,       \* mask_sensitive_output: the text after the applications so far
    rpasses,     \* mask_sensitive_output: number of applications so far
    rawOutput,   \* parsers: the raw command output handed to the parser
    parsed,      \* parsers: the result the parser returned
    issues,      \* issue extractors: the list returned for `parsed`
    cacheFile,   \* my-tool: what is at the path constants.CACHE_FILE
    cachePc,     \* my-tool: position of the running cache command
    cacheLog,    \* my-tool: exit code and message of the commands run so far
    connection,  \* standalone CiscoSSHClient: its _connection
    transport,   \* standalone CiscoSSHClient: the connections asyncssh made
    callers,     \* standalone CiscoSSHClient: the coroutines calling it
    disconnected, \* standalone CiscoSSHClient: has a disconnect completed on it
    started,     \* standalone CiscoSSHClient: calls made on it so far
    attempts,    \* standalone CiscoSSHClient: asyncssh.connect calls started
    maxRetries,  \* call_llm: its argument max_retries
    attempt,     \* call_llm: the loop variable
    llmPc,       \* call_llm: position of the coroutine
    promptFiles, \* call_llm: the temporary prompt files that exist, by attempt
    tried,       \* call_llm: how every attempt made so far ended
    sleeps,      \* call_llm: the seconds of every asyncio.sleep so far
    llmResult    \* call_llm: what it returned

vars == <<vcmd, verdict, connections, lock, clients, pc, arg, client, outcome,
          captured, calls, established, batch, doneOrder, todo,
          rinput, rtext, rpasses, rawOutput, parsed, issues,
          cacheFile, cachePc, cacheLog,
          connection, transport, callers, disconnected, started, attempts,
          maxRetries, attempt, llmPc, promptFiles, tried, sleeps, llmResult>>

poolVars == <<connections, lock, clients, pc, arg, client, outcome,
              captured, calls, established, batch, doneOrder, todo>>

validateVars == <<vcmd, verdict>>

redactVars == <<rinput, rtext, rpasses>>

parseVars == <<rawOutput, parsed, issues>>

cacheVars == <<cacheFile, cachePc, cacheLog>>

sessionVars == <<connection, transport, callers, disconnected, started, attempts>>

llmVars == <<maxRetries, attempt, llmPc, promptFiles, tried, sleeps, llmResult>>

\* the variables of the redactor, the parsers, my-tool, the standalone
\* session and call_llm
otherVars == <<redactVars, parseVars, cacheVars, sessionVars, llmVars>>

-----------------------------------------------------------------------------
(* Characters and strings                                                  *)

\* str.isspace / the regex class \s
Whitespace == {" ", "\t", "\n"}

\* the regex class \d
Digits == {"0", "1", "2", "3", "4", "5", "6", "7", "8", "9"}

UpperLetters == <<"A", "B", "C", "D", "E", "F", "G", "H", "I", "J", "K", "L", "M",
                  "N", "O", "P", "Q", "R", "S", "T", "U", "V", "W", "X", "Y", "Z">>

LowerLetters == <<"a", "b", "c", "d", "e", "f", "g", "h", "i", "j", "k", "l", "m",
                  "n", "o", "p", "q", "r", "s", "t", "u", "v", "w", "x", "y", "z">>

UpperSet == {UpperLetters[i] : i \in 1..26}

\* str.lower on one character
LowerChar(c) ==
    IF c \in UpperSet
    THEN LowerLetters[CHOOSE i \in 1..26 : UpperLetters[i] = c]
    ELSE c

\* str.lower
Lower(s) == [i \in 1..Len(s) |-> LowerChar(s[i])]

\* str.strip: drop leading and trailing whitespace
Strip(s) ==
    LET keep == {i \in 1..Len(s) : s[i] \notin Whitespace}
    IN  IF keep = {} THEN <<>>
        ELSE LET first == CHOOSE i \in keep : \A j \in keep : i <= j
                 last  == CHOOSE i \in keep : \A j \in keep : j <= i
             IN  SubSeq(s, first, last)

\* str.startswith
StartsWith(s, prefix) ==
    /\ Len(prefix) <= Len(s)
    /\ SubSeq(s, 1, Len(prefix)) = prefix

\* does `lit` occur in s at position i (1-based)?
LitAt(s, i, lit) ==
    /\ i + Len(lit) - 1 <= Len(s)
    /\ SubSeq(s, i, i + Len(lit) - 1) = lit

\* does `lit` (lower case) occur in s at position i, letter case ignored?
LitAtIgnoreCase(s, i, lit) ==
    /\ i + Len(lit) - 1 <= Len(s)
    /\ \A k \in 1..Len(lit) : LowerChar(s[i + k - 1]) = lit[k]

\* first position >= i of s whose character is not in class, Len(s)+1 if none
SkipClass(s, i, class) ==
    CHOOSE k \in i..(Len(s) + 1) :
        /\ (k = Len(s) + 1 \/ s[k] \notin class)
        /\ \A j \in i..(k - 1) : s[j] \in class

\* (\S+) stopping after one character
SkipOneChar(s, i) == i + 1

\* first position >= i of s whose character is whitespace, Len(s)+1 if none
SkipNonSpace(s, i) ==
    CHOOSE k \in i..(Len(s) + 1) :
        /\ (k = Len(s) + 1 \/ s[k] \in Whitespace)
        /\ \A j \in i..(k - 1) : s[j] \notin Whitespace

-----------------------------------------------------------------------------
(* Command validator                                                       *)

ALLOWED_COMMAND_PREFIXES ==
    << <<"s", "h", "o", "w", " ">>,
       <<"d", "i", "s", "p", "l", "a", "y", " ">>,
       <<"d", "i", "r", " ">>,
       <<"p", "w", "d">>,
       <<"t", "e", "r", "m", "i", "n", "a", "l", " ", "l", "e", "n", "g", "t", "h">>,
       <<"t", "e", "r", "m", "i", "n", "a", "l", " ", "w", "i", "d", "t", "h">> >>

\* A pattern ^lit, ^lit\s+ or ^lit\s+(?!notNext) is the record
\* [lit, space, notNext]; notNext = <<>> stands for "no lookahead".
BLOCKED_COMMAND_PATTERNS ==
    << [lit |-> <<"c", "o", "n", "f">>, space |-> FALSE, notNext |-> <<>>],
       [lit |-> <<"c", "o", "p", "y">>, space |-> FALSE, notNext |-> <<>>],
       [lit |-> <<"d", "e", "l", "e", "t", "e">>, space |-> FALSE, notNext |-> <<>>],
       [lit |-> <<"w", "r", "i", "t", "e">>, space |-> FALSE, notNext |-> <<>>],
       [lit |-> <<"r", "e", "l", "o", "a", "d">>, space |-> FALSE, notNext |-> <<>>],
       [lit |-> <<"s", "h", "u", "t", "d", "o", "w", "n">>, space |-> FALSE, notNext |-> <<>>],
       [lit |-> <<"n", "o">>, space |-> TRUE, notNext |-> <<>>],
       [lit |-> <<"c", "l", "e", "a", "r">>, space |-> TRUE,
        notNext |-> <<"c", "o", "u", "n", "t", "e", "r", "s">>],
       [lit |-> <<"d", "e", "b", "u", "g">>, space |-> FALSE, notNext |-> <<>>],
       [lit |-> <<"u", "n", "d", "e", "b", "u", "g">>, space |-> FALSE, notNext |-> <<>>] >>

\* the pattern applied with re.search, at any position of the command
ReSearch(pattern, cmd) ==
    \E i \in 1..Len(cmd) :
        LET rest == SubSeq(cmd, i, Len(cmd))
        IN  /\ StartsWith(rest, pattern.lit)
            /\ pattern.space =>
                 LET from == Len(pattern.lit) + 1
                     stop == SkipClass(rest, from, Whitespace)
                 IN  \E k \in (from + 1)..stop :
                         \/ pattern.notNext = <<>>
                         \/ ~LitAt(rest, k, pattern.notNext)

\* re.match(pattern, cmd): anchored at the start of cmd.  \s+ may give back
\* characters, so the lookahead is tried after every non-empty whitespace run.
ReMatch(pattern, cmd) ==
    /\ StartsWith(cmd, pattern.lit)
    /\ pattern.space =>
         LET from == Len(pattern.lit) + 1
             stop == SkipClass(cmd, from, Whitespace)
         IN  \E k \in (from + 1)..stop :
                 \/ pattern.notNext = <<>>
                 \/ ~LitAt(cmd, k, pattern.notNext)

\* validate_command without the strip
NormalizeWithoutStrip(command) == Lower(command)

\* str.strip().lower() of validate_command
NormalizeCommand(command) == Lower(Strip(command))

\* any(cmd.startswith(prefix) for prefix in ALLOWED_COMMAND_PREFIXES)
HasAllowedPrefix(cmd) ==
    \E i \in 1..Len(ALLOWED_COMMAND_PREFIXES) :
        StartsWith(cmd, ALLOWED_COMMAND_PREFIXES[i])

\* the loop over BLOCKED_COMMAND_PATTERNS
MatchesBlockedPattern(cmd) ==
    \E i \in 1..Len(BLOCKED_COMMAND_PATTERNS) :
        ReMatch(BLOCKED_COMMAND_PATTERNS[i], cmd)

\* validate_command: "ok" when it returns, otherwise the exception raised
validate_command(command) ==
    LET cmd == NormalizeCommand(command)
    IN  IF ~HasAllowedPrefix(cmd) THEN "InvalidCommandError"
        ELSE IF MatchesBlockedPattern(cmd) THEN "InvalidCommandError"
        ELSE "ok"

-----------------------------------------------------------------------------
(* Redactor                                                                *)

MASK == <<"*", "*", "*", "*", "*", "*", "*", "*">>

\* The five (pattern, replacement) pairs of mask_sensitive_output.  Each
\* pattern is keyword, separator, (\S+); the separator is
\*   "assign"  \s*[=:]\s*      "digits"  \s+\d+\s+      "space"  \s+
MaskPatterns ==
    << [key |-> <<"p", "a", "s", "s", "w", "o", "r", "d">>, sep |-> "assign"],
       [key |-> <<"k", "e", "y">>, sep |-> "assign"],
       [key |-> <<"s", "e", "c", "r", "e", "t">>, sep |-> "assign"],
       [key |-> <<"m", "d", "5">>, sep |-> "digits"],
       [key |-> <<"c", "o", "m", "m", "u", "n", "i", "t", "y">>, sep |-> "space"] >>

\* Position of the first character of group 2 when the keyword and separator
\* of p match s at position i, 0 when they do not.
Group2Start(p, s, i) ==
    IF ~LitAtIgnoreCase(s, i, p.key) THEN 0
    ELSE LET j == i + Len(p.key)
         IN  CASE p.sep = "assign" ->
                    LET a == SkipClass(s, j, Whitespace)
                    IN  IF a <= Len(s) /\ s[a] \in {"=", ":"}
                        THEN SkipClass(s, a + 1, Whitespace)
                        ELSE 0
               [] p.sep = "digits" ->
                    LET a == SkipClass(s, j, Whitespace)
                        b == SkipClass(s, a, Digits)
                        c == SkipClass(s, b, Whitespace)
                    IN  IF a > j /\ b > a /\ c > b THEN c ELSE 0
               [] p.sep = "space" ->
                    LET a == SkipClass(s, j, Whitespace)
                    IN  IF a > j THEN a ELSE 0

\* re.sub(pattern, r"\1********", s, flags=re.IGNORECASE) from position i on:
\* leftmost matches, not overlapping, group 1 kept and group 2 replaced.
RECURSIVE ReSub(_, _, _)
ReSub(p, s, i) ==
    IF i > Len(s) THEN <<>>
    ELSE LET g == Group2Start(p, s, i)
         IN  IF g # 0 /\ g <= Len(s)
             THEN SubSeq(s, i, g - 1) \o MASK \o ReSub(p, s, SkipNonSpace(s, g))
             ELSE <<s[i]>> \o ReSub(p, s, i + 1)

\* the loop over patterns of mask_sensitive_output, patterns 1..n applied in order
RECURSIVE MaskWith(_, _)
MaskWith(n, output) ==
    IF n = 0 THEN output
    ELSE ReSub(MaskPatterns[n], MaskWith(n - 1, output), 1)

mask_sensitive_output(output) == MaskWith(Len(MaskPatterns), output)

-----------------------------------------------------------------------------
(* Inputs of the validator                                                 *)

\* longest run of whitespace put before and after a command
MaxPad == 1

Pads == UNION {[1..n -> {" ", "\t"}] : n \in 0..MaxPad}

CommandHeads ==
    { <<>>,
      <<"s", "h", "o", "w">>, <<"S", "H", "O", "W">>, <<"S", "h", "o", "w">>,
      <<"s", "h", "o">>,
      <<"d", "i", "s", "p", "l", "a", "y">>,
      <<"d", "i", "r">>,
      <<"p", "w", "d">>,
      <<"t", "e", "r", "m", "i", "n", "a", "l", " ", "l", "e", "n", "g", "t", "h">>,
      <<"t", "e", "r", "m", "i", "n", "a", "l", " ", "w", "i", "d", "t", "h">>,
      <<"t", "e", "r", "m", "i", "n", "a", "l">>,
      <<"c", "o", "n", "f">>,
      <<"c", "o", "n", "f", "i", "g", "u", "r", "e">>,
      <<"c", "o", "p", "y">>,
      <<"d", "e", "l", "e", "t", "e">>,
      <<"w", "r", "i", "t", "e">>,
      <<"r", "e", "l", "o", "a", "d">>,
      <<"s", "h", "u", "t", "d", "o", "w", "n">>,
      <<"n", "o">>,
      <<"c", "l", "e", "a", "r">>, <<"C", "l", "e", "a", "r">>,
      <<"d", "e", "b", "u", "g">>,
      <<"u", "n", "d", "e", "b", "u", "g">> }

CommandTails ==
    { <<>>,
      <<"x">>,
      <<" ", "v", "e", "r", "s", "i", "o", "n">>,
      <<" ", "a", "r", "p">>,
      <<" ", "c", "o", "u", "n", "t", "e", "r", "s">>,
      <<" ", "c", "o", "u", "n", "t", "e", "r", "s", " ", "e", "1">>,
      <<" ", " ", "c", "o", "u", "n", "t", "e", "r", "s">>,
      <<"\t", "c", "o", "u", "n", "t", "e", "r", "s">>,
      <<" ", "c", "o", "u", "n", "t">>,
      \* " version ; conf t", " ; reload", " x ; no shutdown"
      <<" ", "v", "e", "r", "s", "i", "o", "n", " ", ";", " ", "c", "o", "n", "f", " ", "t">>,
      <<" ", ";", " ", "r", "e", "l", "o", "a", "d">>,
      <<" ", "x", " ", ";", " ", "n", "o", " ", "s", "h", "u", "t", "d", "o", "w", "n">> }

\* the command strings handed to validate_command
Commands ==
    {lead \o head \o tail \o trail :
        lead \in Pads, head \in CommandHeads, tail \in CommandTails, trail \in Pads}

-----------------------------------------------------------------------------
(* Session pool: constants of the model                                    *)

\* longest host list handed to execute_on_multiple
MaxBatch == 2

\* switch addresses, and the hostname the inventory gives each of them
Hosts == {"10.0.0.1", "10.0.0.2"}

LabelOf(host) == IF host = "10.0.0.1" THEN "SS1" ELSE "SS2"

\* Coroutines: 1..MaxBatch are the execute_single coroutines of one
\* execute_on_multiple call, each a caller of pool.execute_command, and
\* Closer is the caller of close_all.
NoTask == 0
BatchTasks == 1..MaxBatch
Closer == MaxBatch + 1
Tasks == BatchTasks \cup {Closer}

ShowVersion == <<"s", "h", "o", "w", " ", "v", "e", "r", "s", "i", "o", "n">>
ConfT == <<"c", "o", "n", "f", " ", "t">>

\* the commands callers hand to the pool
PoolCommands == {ShowVersion, ConfT}

TextUp == <<"u", "p">>
TextKey == <<"k", "e", "y", "=", "x">>
TextPassword == <<"p", "a", "s", "s", "w", "o", "r", "d", ":", " ", "y">>

\* What the awaited asyncssh.connect can do.  asyncssh.Error and OSError take
\* the path of TimeoutError with another message (ConnectMessage), so the
\* pool is given one failing outcome.
ConnectOutcomes == {"connected", "TimeoutError"}

\* what the awaited connection.run can do: complete with (stdout, stderr,
\* exit_status), exceed the timeout of wait_for, or raise asyncssh.Error
Completed(out, err, status) ==
    [kind |-> "completed", stdout |-> out, stderr |-> err, exit_status |-> status]

\* The outcomes of run the pool is given: a success whose output holds a
\* secret, a failure whose error stream holds one, and a timeout.
RunOutcomes ==
    { Completed(TextKey, <<>>, 0),
      Completed(TextUp, TextPassword, 1),
      [kind |-> "TimeoutError", stdout |-> <<>>, stderr |-> <<>>, exit_status |-> 0] }

\* what a coroutine returned or raised; `detail` is the text interpolated
\* into the exception message after its fixed part `msg`
Pending == [kind |-> "pending", exc |-> "", msg |-> "", output |-> <<>>, detail |-> <<>>]

Return(out) ==
    [kind |-> "return", exc |-> "", msg |-> "", output |-> out, detail |-> <<>>]

Raise(e, m, d) ==
    [kind |-> "raise", exc |-> e, msg |-> m, output |-> <<>>, detail |-> d]

NoArg == [host |-> "", command |-> <<>>, label |-> ""]

NoCapture == [stdout |-> <<>>, stderr |-> <<>>]

IdleBatch ==
    [state |-> "idle", hosts |-> <<>>, hostnames |-> <<>>, command |-> <<>>,
     results |-> <<>>]

PoolInit ==
    /\ connections = <<>>
    /\ lock = NoTask
    /\ clients = <<>>
    /\ pc = [t \in Tasks |-> IF t \in BatchTasks THEN "unused" ELSE "idle"]
    /\ arg = [t \in Tasks |-> NoArg]
    /\ client = [t \in Tasks |-> 0]
    /\ outcome = [t \in Tasks |-> Pending]
    /\ captured = [t \in Tasks |-> NoCapture]
    /\ calls = [t \in Tasks |-> [connect |-> 0, run |-> 0, line |-> <<>>]]
    /\ established = [h \in Hosts |-> 0]
    /\ batch = IdleBatch
    /\ doneOrder = <<>>
    /\ todo = {}

-----------------------------------------------------------------------------
(* CiscoSSHClient                                                          *)

\* a coroutine ends: it returns or raises o
Finish(t, o) ==
    /\ pc' = [pc EXCEPT ![t] = "done"]
    /\ outcome' = [outcome EXCEPT ![t] = o]
    /\ doneOrder' = IF t \in BatchTasks THEN Append(doneOrder, t) ELSE doneOrder

\* the message of the SSHConnectionError that connect raises
ConnectMessage(r) ==
    CASE r = "TimeoutError" -> "Connection timed out"
      [] r = "asyncssh.Error" -> "SSH connection failed"
      [] r = "OSError" -> "Network error connecting"

\* CiscoSSHClient.connect on a client whose _connection is None, up to its
\* await: without the key file it raises, otherwise asyncssh.connect is
\* started and the coroutine waits at `waitAt`
ConnectBegin(t, waitAt) ==
    \E keyFileExists \in BOOLEAN :
        IF keyFileExists
        THEN /\ pc' = [pc EXCEPT ![t] = waitAt]
             /\ calls' = [calls EXCEPT ![t].connect = @ + 1]
             /\ UNCHANGED <<outcome, doneOrder>>
        ELSE /\ Finish(t, Raise("SSHConnectionError", "SSH key file not found", <<>>))
             /\ calls' = calls

\* the line without the pagination prefix
FullCommandBare(command) == command

\* f"terminal length 0 ; {command}"
FullCommand(command) == <<"t", "e", "r", "m", "i", "n", "a", "l", " ", "l", "e", "n", "g", "t", "h", " ", "0", " ", ";", " ">> \o command

\* CiscoSSHClient.execute_command(command, timeout) up to its first await.
\* conn is the client's _connection when the call starts.  A client that
\* get_connection returns is connected, and the pool calls execute_command
\* on it before any other coroutine runs, so the pool never takes the branch
\* of the lazy connect (PoolNeverConnectsLazily).
ClientExecute(t, a, conn) ==
    IF validate_command(a.command) # "ok"
    THEN /\ Finish(t, Raise("InvalidCommandError", "Command is not allowed", a.command))
         /\ calls' = calls
    ELSE IF conn = "None"
    THEN ConnectBegin(t, "lazy_connecting")
    ELSE /\ pc' = [pc EXCEPT ![t] = "running"]
         /\ calls' = [calls EXCEPT ![t].run = @ + 1, ![t].line = FullCommand(a.command)]
         /\ UNCHANGED <<outcome, doneOrder>>

\* execute_command raising for every non-zero exit status
ExecuteResultStrict(r) ==
    CASE r.kind = "TimeoutError" ->
            Raise("CommandExecutionError", "Command timed out", <<>>)
      [] r.kind = "asyncssh.Error" ->
            Raise("CommandExecutionError", "Error executing command", <<>>)
      [] r.kind = "completed" ->
            IF r.exit_status # 0
            THEN Raise("CommandExecutionError", "Command failed with exit status", r.stderr)
            ELSE Return(mask_sensitive_output(r.stdout))

\* CiscoSSHClient.execute_command from the return of the awaited run on:
\* what it returns or raises for the result r of the run
ExecuteResult(r) ==
    CASE r.kind = "TimeoutError" ->
            Raise("CommandExecutionError", "Command timed out", <<>>)
      [] r.kind = "asyncssh.Error" ->
            Raise("CommandExecutionError", "Error executing command", <<>>)
      [] r.kind = "completed" ->
            LET output == mask_sensitive_output(r.stdout)
            IN  IF r.exit_status # 0 /\ r.stderr # <<>>
                THEN Raise("CommandExecutionError", "Command failed with exit status",
                           r.stderr)
                ELSE Return(output)

\* the awaited connection.run of execute_command comes back
RunReturns(t) ==
    /\ pc[t] = "running"
    /\ \E r \in RunOutcomes :
         /\ captured' = [captured EXCEPT ![t] = [stdout |-> r.stdout, stderr |-> r.stderr]]
         /\ Finish(t, ExecuteResult(r))
    /\ UNCHANGED <<validateVars, otherVars, connections, lock, clients, arg, client, calls,
                   established, batch, todo>>

-----------------------------------------------------------------------------
(* SSHConnectionPool.get_connection and execute_command                    *)

\* get_connection without the lookup: every get creates a client
PooledNever(host) == FALSE

\* `host not in self._connections`, negated
Pooled(host) == host \in DOMAIN connections

\* self._connections[host] = client
Store(host, c) ==
    [h \in DOMAIN connections \cup {host} |-> IF h = host THEN c ELSE connections[h]]

\* the lock kept by the coroutine beyond get_connection
LockKept(t) == t

\* holder of self._lock once `async with self._lock` of get_connection is
\* left, by its return or by the exception of connect
LockAfterGet(t) == NoTask

\* get_connection from the acquired lock to its first await, then, when it
\* returns without awaiting, client.execute_command
LockedSection(t, a) ==
    /\ IF Pooled(a.host)
       THEN /\ client' = [client EXCEPT ![t] = connections[a.host]]
            /\ lock' = LockAfterGet(t)
            /\ clients' = clients
            /\ ClientExecute(t, a, clients[connections[a.host]].connection)
       ELSE /\ client' = [client EXCEPT ![t] = Len(clients) + 1]
            /\ clients' = Append(clients, [host |-> a.host, connection |-> "None"])
            /\ ConnectBegin(t, "connecting")
            /\ lock' = IF pc'[t] = "connecting" THEN t ELSE LockAfterGet(t)
    /\ UNCHANGED <<validateVars, otherVars, connections, captured, established, batch, todo>>

\* pool.execute_command(host, command) is called: get_connection reaches the
\* lock, and waits for it when it is held
CallPool(t, a) ==
    /\ pc[t] = "idle"
    /\ arg' = [arg EXCEPT ![t] = a]
    /\ IF lock # NoTask
       THEN /\ pc' = [pc EXCEPT ![t] = "wait_lock"]
            /\ UNCHANGED <<validateVars, otherVars, connections, lock, clients, client, outcome,
                           captured, calls, established, batch, doneOrder, todo>>
       ELSE LockedSection(t, a)

\* an execute_single coroutine of the batch starts: self.execute_command(host, ...)
SingleCall(t) ==
    /\ t \in BatchTasks
    /\ CallPool(t, arg[t])

\* a coroutine waiting in `async with self._lock` of get_connection gets the lock
Acquire(t) ==
    /\ pc[t] = "wait_lock"
    /\ lock = NoTask
    /\ arg' = arg
    /\ LockedSection(t, arg[t])

\* the awaited client.connect() of get_connection comes back
ConnectReturns(t) ==
    /\ pc[t] = "connecting"
    /\ \E r \in ConnectOutcomes :
         IF r = "connected"
         THEN /\ clients' = [clients EXCEPT ![client[t]].connection = "open"]
              /\ established' = [established EXCEPT ![arg[t].host] = @ + 1]
              /\ connections' = Store(arg[t].host, client[t])
              /\ lock' = LockAfterGet(t)
              /\ ClientExecute(t, arg[t], "open")
         ELSE /\ Finish(t, Raise("SSHConnectionError", ConnectMessage(r), <<>>))
              /\ lock' = LockAfterGet(t)
              /\ UNCHANGED <<clients, established, connections, calls>>
    /\ UNCHANGED <<validateVars, otherVars, arg, client, captured, batch, todo>>

-----------------------------------------------------------------------------
(* SSHConnectionPool.execute_on_multiple                                   *)

Min(a, b) == IF a <= b THEN a ELSE b

\* zip(hosts, hostnames)
Zip(hosts, hostnames) ==
    [i \in 1..Min(Len(hosts), Len(hostnames)) |-> <<hosts[i], hostnames[i]>>]

\* the host lists of a call; run_command_all takes hosts and hostnames from
\* the same list of switches
HostLists == UNION {[1..n -> Hosts] : n \in 0..MaxBatch}

\* an except clause that leaves CommandExecutionError out
CaughtWithoutExecutionError == {"SSHConnectionError", "InvalidCommandError"}

\* the exceptions execute_single turns into a failed CommandResult
CaughtExceptions == {"SSHConnectionError", "CommandExecutionError", "InvalidCommandError"}

\* does the exception of execute_command leave execute_single?
Propagates(o) == o.kind = "raise" /\ o.exc \notin CaughtExceptions

\* execute_single(host, hostname): the CommandResult made of what
\* self.execute_command returned or raised; error is <<>> for None, else <<str(e)>>
execute_single(a, o) ==
    IF o.kind = "return"
    THEN [switch |-> a.label, command |-> a.command, output |-> o.output,
          success |-> TRUE, error |-> <<>>]
    ELSE [switch |-> a.label, command |-> a.command, output |-> <<>>,
          success |-> FALSE, error |-> <<[msg |-> o.msg, detail |-> o.detail]>>]

\* results collected as the awaitables complete (as asyncio.as_completed would)
GatherCompletionOrder(n, order) == order

\* asyncio.gather(*tasks): position i of the returned list holds the result of
\* the i-th awaitable; `order` is the order in which they completed
GatherOrder(n, order) == [i \in 1..n |-> i]

\* execute_on_multiple is called with hosts, command and optional hostnames:
\* the execute_single coroutines are created and handed to gather
BatchCall ==
    /\ batch.state = "idle"
    /\ \E hosts \in HostLists, named \in BOOLEAN, cmd \in PoolCommands :
         LET hostnamesArg == IF named THEN <<[i \in 1..Len(hosts) |-> LabelOf(hosts[i])]>>
                             ELSE <<>>
             hostnames == IF hostnamesArg = <<>> THEN hosts ELSE hostnamesArg[1]
             pairs == Zip(hosts, hostnames)
         IN  /\ batch' = [state |-> "gathering", hosts |-> hosts,
                          hostnames |-> hostnames, command |-> cmd, results |-> <<>>]
             /\ pc' = [t \in Tasks |-> IF t \in 1..Len(pairs) THEN "idle" ELSE pc[t]]
             /\ arg' = [t \in Tasks |->
                          IF t \in 1..Len(pairs)
                          THEN [host |-> pairs[t][1], command |-> cmd, label |-> pairs[t][2]]
                          ELSE arg[t]]
    /\ UNCHANGED <<validateVars, otherVars, connections, lock, clients, client, outcome, captured,
                   calls, established, doneOrder, todo>>

\* the execute_single coroutines gather waits for
Gathered == {t \in BatchTasks : pc[t] # "unused"}

\* the awaited gather comes back: with the first exception that left an
\* execute_single, or else, once all of them are done, with the result list
GatherReturns ==
    /\ batch.state = "gathering"
    /\ LET n == Cardinality(Gathered)
           raised == \E t \in Gathered : pc[t] = "done" /\ Propagates(outcome[t])
           order == GatherOrder(n, doneOrder)
       IN  IF raised
           THEN batch' = [batch EXCEPT !.state = "raised"]
           ELSE /\ \A t \in Gathered : pc[t] = "done"
                /\ batch' = [batch EXCEPT
                      !.state = "returned",
                      !.results = [i \in 1..n |->
                                     execute_single(arg[order[i]], outcome[order[i]])]]
    /\ UNCHANGED <<validateVars, otherVars, connections, lock, clients, pc, arg, client, outcome,
                   captured, calls, established, doneOrder, todo>>

-----------------------------------------------------------------------------
(* SSHConnectionPool.close_all and CiscoSSHClient.disconnect                *)

\* close_all clearing the pool without disconnecting its clients
NoClients == {}

\* self._connections.values()
PooledClients == {connections[h] : h \in DOMAIN connections}

\* The loop of close_all over the clients in S, up to its next await: the
\* clients whose _connection is None are passed over; the next other one has
\* its connection closed and the coroutine waits in wait_closed.  After the
\* last client the pool is cleared and the lock released.  cl is the clients
\* as the loop finds them.
CloseLoop(S, cl) ==
    LET live == {c \in S : cl[c].connection # "None"}
    IN  IF live = {}
        THEN /\ connections' = <<>>
             /\ lock' = NoTask
             /\ established' = [h \in Hosts |-> 0]
             /\ pc' = [pc EXCEPT ![Closer] = "done"]
             /\ todo' = {}
             /\ clients' = cl
             /\ client' = [client EXCEPT ![Closer] = 0]
        ELSE \E c \in live :
             /\ clients' = [cl EXCEPT ![c].connection = "closed"]
             /\ client' = [client EXCEPT ![Closer] = c]
             /\ todo' = live
             /\ lock' = Closer
             /\ pc' = [pc EXCEPT ![Closer] = "closing"]
             /\ UNCHANGED <<connections, established>>

\* close_all is called: it waits for the lock when it is held
CloseAllCall ==
    /\ pc[Closer] = "idle"
    /\ IF lock # NoTask
       THEN /\ pc' = [pc EXCEPT ![Closer] = "wait_lock"]
            /\ UNCHANGED <<connections, lock, clients, client, established, todo>>
       ELSE CloseLoop(PooledClients, clients)
    /\ UNCHANGED <<validateVars, otherVars, arg, outcome, captured, calls, batch, doneOrder>>

\* close_all, waiting in `async with self._lock`, gets the lock
CloseAllAcquire ==
    /\ pc[Closer] = "wait_lock"
    /\ lock = NoTask
    /\ CloseLoop(PooledClients, clients)
    /\ UNCHANGED <<validateVars, otherVars, arg, outcome, captured, calls, batch, doneOrder>>

\* the awaited wait_closed of disconnect comes back: _connection = None, and
\* close_all goes on with the next client
WaitClosedReturns ==
    /\ pc[Closer] = "closing"
    /\ CloseLoop(todo \ {client[Closer]},
                 [clients EXCEPT ![client[Closer]].connection = "None"])
    /\ UNCHANGED <<validateVars, otherVars, arg, outcome, captured, calls, batch, doneOrder>>

-----------------------------------------------------------------------------
(* The components a specification does not exercise stay as constructed    *)

ValidatorIdle ==
    /\ vcmd = <<>>
    /\ verdict = "pending"

RedactorIdle ==
    /\ rinput = <<>>
    /\ rtext = <<>>
    /\ rpasses = 0

ParserIdle ==
    /\ rawOutput = <<>>
    /\ parsed = [kind |-> "none"]
    /\ issues = [returned |-> FALSE, list |-> <<>>]

CacheIdle ==
    /\ cacheFile = "absent"
    /\ cachePc = "idle"
    /\ cacheLog = <<>>

\* self._connection = None
None == 0

SessionIdle ==
    /\ connection = None
    /\ transport = <<>>
    /\ callers = <<>>
    /\ disconnected = FALSE
    /\ started = 0
    /\ attempts = 0

\* call_llm has not been called
NoResult == [kind |-> "pending", value |-> <<>>]

LlmIdle ==
    /\ maxRetries = 0
    /\ attempt = 0
    /\ llmPc = "idle"
    /\ promptFiles = {}
    /\ tried = <<>>
    /\ sleeps = <<>>
    /\ llmResult = NoResult

-----------------------------------------------------------------------------
(* Specifications                                                          *)

Init ==
    /\ ValidatorIdle
    /\ PoolInit
    /\ RedactorIdle
    /\ ParserIdle
    /\ CacheIdle
    /\ SessionIdle
    /\ LlmIdle

Next ==
    \/ BatchCall
    \/ \E t \in BatchTasks : SingleCall(t)
    \/ \E t \in BatchTasks : Acquire(t)
    \/ \E t \in BatchTasks : ConnectReturns(t)
    \/ \E t \in BatchTasks : RunReturns(t)
    \/ GatherReturns
    \/ CloseAllCall
    \/ CloseAllAcquire
    \/ WaitClosedReturns

Spec == Init /\ [][Next]_vars

\* validate_command is applied to the command
Validate ==
    /\ verdict = "pending"
    /\ verdict' = validate_command(vcmd)
    /\ UNCHANGED <<vcmd, poolVars, otherVars>>

InitValidate ==
    /\ vcmd \in Commands
    /\ verdict = "pending"
    /\ PoolInit
    /\ RedactorIdle
    /\ ParserIdle
    /\ CacheIdle
    /\ SessionIdle
    /\ LlmIdle

NextValidate == Validate

SpecValidate == InitValidate /\ [][NextValidate]_vars

-----------------------------------------------------------------------------
(* Redactor applied to bounded texts                                       *)

\* longest text handed to mask_sensitive_output, in pieces
MaxPieces == 3

\* keywords with and without their separators, values and separators
TextPieces ==
    { <<"p", "a", "s", "s", "w", "o", "r", "d", "=">>,
      <<"k", "e", "y", ":">>,
      <<"s", "e", "c", "r", "e", "t", " ", "=">>,
      <<"m", "d", "5", " ", "1", " ">>,
      <<"c", "o", "m", "m", "u", "n", "i", "t", "y", " ">>,
      <<"K", "e", "y">>,
      <<"x">>,
      <<" ">>,
      <<"1">>,
      <<":">>,
      <<"=">>,
      <<"m", "d", "5">> }

RECURSIVE Concat(_)
Concat(ps) == IF ps = <<>> THEN <<>> ELSE Head(ps) \o Concat(Tail(ps))

\* the texts handed to mask_sensitive_output
Texts == {Concat(ps) : ps \in UNION {[1..n -> TextPieces] : n \in 0..MaxPieces}}

\* mask_sensitive_output is applied to the text it returned last
Redact ==
    /\ rpasses < 2
    /\ rtext' = mask_sensitive_output(rtext)
    /\ rpasses' = rpasses + 1
    /\ UNCHANGED <<rinput, validateVars, poolVars, llmVars, parseVars, cacheVars, sessionVars>>

InitRedact ==
    /\ rinput \in Texts
    /\ rtext = rinput
    /\ rpasses = 0
    /\ ValidatorIdle
    /\ PoolInit
    /\ ParserIdle
    /\ CacheIdle
    /\ SessionIdle
    /\ LlmIdle

NextRedact == Redact

SpecRedact == InitRedact /\ [][NextRedact]_vars

-----------------------------------------------------------------------------
(* Protocol parsers (cisco_mcp/parsers): helpers                           *)

DigitChars == <<"0", "1", "2", "3", "4", "5", "6", "7", "8", "9">>

\* str.upper on one character
UpperChar(c) ==
    IF \E i \in 1..26 : LowerLetters[i] = c
    THEN UpperLetters[CHOOSE i \in 1..26 : LowerLetters[i] = c]
    ELSE c

\* str.upper
Upper(s) == [i \in 1..Len(s) |-> UpperChar(s[i])]

\* first position >= i of s holding the character c, Len(s)+1 if none
Find(s, i, c) ==
    CHOOSE k \in i..(Len(s) + 1) :
        /\ (k = Len(s) + 1 \/ s[k] = c)
        /\ \A j \in i..(k - 1) : s[j] # c

\* `lit in s`
Contains(s, lit) == \E i \in 1..Len(s) : LitAt(s, i, lit)

\* str.splitlines
RECURSIVE splitlines(_)
splitlines(s) ==
    IF s = <<>> THEN <<>>
    ELSE LET k == Find(s, 1, "\n")
         IN  <<SubSeq(s, 1, k - 1)>> \o splitlines(SubSeq(s, k + 1, Len(s)))

\* The row patterns are groups separated by \s+ and matched from the start of
\* the stripped line: every group but the last must end where a run of
\* whitespace begins, so the groups are the whitespace-separated fields of
\* the line, in order.
RECURSIVE Fields(_)
Fields(line) ==
    LET a == SkipClass(line, 1, Whitespace)
    IN  IF a > Len(line) THEN <<>>
        ELSE LET b == SkipNonSpace(line, a)
             IN  <<SubSeq(line, a, b - 1)>> \o Fields(SubSeq(line, b, Len(line)))

\* the field matches \d+
IsDigits(f) == f # <<>> /\ \A i \in 1..Len(f) : f[i] \in Digits

\* the field matches \d+\.\d+\.\d+\.\d+
IsDottedQuad(f) ==
    LET dots == {i \in 1..Len(f) : f[i] = "."}
    IN  /\ Cardinality(dots) = 3
        /\ \A i \in 1..Len(f) : i \notin dots => f[i] \in Digits
        /\ 1 \notin dots
        /\ Len(f) \notin dots
        /\ \A i \in dots : i + 1 \notin dots

\* int() of a string of decimal digits
RECURSIVE ToInt(_)
ToInt(f) ==
    IF f = <<>> THEN 0
    ELSE 10 * ToInt(SubSeq(f, 1, Len(f) - 1))
         + (CHOOSE v \in 0..9 : DigitChars[v + 1] = f[Len(f)])

\* int() of a field: an optional sign, then digits that single underscores
\* may separate; [ok |-> FALSE] stands for ValueError
int(f) ==
    LET signed == f # <<>> /\ f[1] \in {"+", "-"}
        body   == IF signed THEN Tail(f) ELSE f
        digits == SelectSeq(body, LAMBDA c : c # "_")
        wellFormed ==
            /\ body # <<>>
            /\ \A i \in 1..Len(body) : body[i] \in Digits \cup {"_"}
            /\ body[1] # "_"
            /\ body[Len(body)] # "_"
            /\ \A i \in 1..(Len(body) - 1) : ~(body[i] = "_" /\ body[i + 1] = "_")
    IN  IF ~wellFormed THEN [ok |-> FALSE, value |-> 0]
        ELSE [ok |-> TRUE,
              value |-> IF signed /\ f[1] = "-" THEN 0 - ToInt(digits) ELSE ToInt(digits)]

\* len([x for x in records if x.flag]) with the flags of the records listed
CountAll(flags) == Len(flags)

Count(flags) == Cardinality({i \in 1..Len(flags) : flags[i]})

\* for line in output.splitlines(): line = line.strip()
StrippedLinesOf(out) == [i \in 1..Len(splitlines(out)) |-> Strip(splitlines(out)[i])]

\* the records appended in the loop over the lines: `appended` lists, line by
\* line, the record of a matching line in a tuple and <<>> for any other line
RECURSIVE Records(_)
Records(appended) ==
    IF appended = <<>> THEN <<>> ELSE Head(appended) \o Records(Tail(appended))

-----------------------------------------------------------------------------
(* parsers/ospf.py                                                         *)

\* state_full.split("/")[0] if "/" in state_full else state_full
WholeState(state_full) == state_full

BaseState(state_full) == SubSeq(state_full, 1, Find(state_full, 1, "/") - 1)

\* neighbor_pattern.match(line) and the record appended for a match
OSPFNeighbor(line) ==
    LET f == Fields(line)
    IN  IF Len(f) >= 6 /\ IsDottedQuad(f[1]) /\ IsDigits(f[2]) /\ IsDottedQuad(f[5])
        THEN << [neighbor_id |-> f[1],
                 priority    |-> ToInt(f[2]),
                 state       |-> f[3],
                 dead_time   |-> f[4],
                 address     |-> f[5],
                 interface   |-> f[6],
                 is_healthy  |-> Upper(BaseState(f[3])) = <<"F", "U", "L", "L">>] >>
        ELSE <<>>

parse_ospf_neighbors(out, switch_name) ==
    LET neighbors  == Records([i \in 1..Len(StrippedLinesOf(out)) |->
                        OSPFNeighbor(StrippedLinesOf(out)[i])])
        full_count == Count([i \in 1..Len(neighbors) |-> neighbors[i].is_healthy])
    IN  [kind          |-> "ospf",
         switch        |-> switch_name,
         neighbors     |-> neighbors,
         total_count   |-> Len(neighbors),
         full_count    |-> full_count,
         problem_count |-> Len(neighbors) - full_count]

-----------------------------------------------------------------------------
(* parsers/bgp.py                                                          *)

\* re.search(r"local AS number (\d+)", output): the digits after the first
\* occurrence of the words that digits follow
LocalAsn(out) ==
    LET lit  == <<"l", "o", "c", "a", "l", " ", "A", "S", " ", "n", "u", "m", "b", "e", "r", " ">>
        hits == {i \in 1..Len(out) :
                    /\ LitAt(out, i, lit)
                    /\ SkipClass(out, i + Len(lit), Digits) > i + Len(lit)}
    IN  IF hits = {} THEN 0
        ELSE LET i == CHOOSE h \in hits : \A g \in hits : h <= g
                 a == i + Len(lit)
             IN  ToInt(SubSeq(out, a, SkipClass(out, a, Digits) - 1))

\* the except ValueError branch taken for every token
NeverEstablished(state_or_pfx) ==
    [prefixes_received |-> 0, state |-> state_or_pfx, is_established |-> FALSE]

\* try: int(state_or_pfx) ... except ValueError
StateOrPrefixes(state_or_pfx) ==
    IF int(state_or_pfx).ok
    THEN [prefixes_received |-> int(state_or_pfx).value,
          state |-> <<"E", "s", "t", "a", "b", "l", "i", "s", "h", "e", "d">>, is_established |-> TRUE]
    ELSE [prefixes_received |-> 0, state |-> state_or_pfx, is_established |-> FALSE]

\* neighbor_pattern.match(line) and the record appended for a match
BGPNeighbor(line) ==
    LET f == Fields(line)
    IN  IF /\ Len(f) >= 10
           /\ IsDottedQuad(f[1])
           /\ \A k \in 2..8 : IsDigits(f[k])
        THEN LET s == StateOrPrefixes(f[10])
             IN  << [neighbor_id       |-> f[1],
                     asn               |-> ToInt(f[3]),
                     state             |-> s.state,
                     prefixes_received |-> s.prefixes_received,
                     up_time           |-> f[9],
                     is_established    |-> s.is_established] >>
        ELSE <<>>

parse_bgp_evpn_summary(out, switch_name) ==
    LET neighbors == Records([i \in 1..Len(StrippedLinesOf(out)) |->
                        BGPNeighbor(StrippedLinesOf(out)[i])])
        established_count ==
            Count([i \in 1..Len(neighbors) |-> neighbors[i].is_established])
    IN  [kind              |-> "bgp",
         switch            |-> switch_name,
         local_asn         |-> LocalAsn(out),
         neighbors         |-> neighbors,
         total_count       |-> Len(neighbors),
         established_count |-> established_count,
         problem_count     |-> Len(neighbors) - established_count]

-----------------------------------------------------------------------------
(* parsers/nve.py                                                          *)

\* peer_pattern.match(line) and the record appended for a match
NVEPeer(line) ==
    LET f == Fields(line)
    IN  IF /\ Len(f) >= 5
           /\ StartsWith(f[1], <<"n", "v", "e">>)
           /\ IsDigits(SubSeq(f[1], 4, Len(f[1])))
           /\ IsDottedQuad(f[2])
        THEN << [peer_ip    |-> f[2],
                 state      |-> f[3],
                 learn_type |-> f[4],
                 uptime     |-> f[5],
                 is_up      |-> Lower(f[3]) = <<"u", "p">>] >>
        ELSE <<>>

parse_nve_peers(out, switch_name) ==
    LET peers    == Records([i \in 1..Len(StrippedLinesOf(out)) |->
                        NVEPeer(StrippedLinesOf(out)[i])])
        up_count == Count([i \in 1..Len(peers) |-> peers[i].is_up])
    IN  [kind        |-> "nve",
         switch      |-> switch_name,
         peers       |-> peers,
         total_count |-> Len(peers),
         up_count    |-> up_count,
         down_count  |-> Len(peers) - up_count]

-----------------------------------------------------------------------------
(* parsers/vpc.py                                                          *)

Least(S) == CHOOSE x \in S : \A y \in S : x <= y

\* position of the colon when `lit\s*:` matches out at position i, else 0
ColonAfter(out, i, lit) ==
    IF ~LitAt(out, i, lit) THEN 0
    ELSE LET c == SkipClass(out, i + Len(lit), Whitespace)
         IN  IF c <= Len(out) /\ out[c] = ":" THEN c ELSE 0

\* re.search(lit\s*:\s*(\d+), out): <<group 1>>, or <<>> for no match
SearchNumber(out, lit) ==
    LET start(i) == SkipClass(out, ColonAfter(out, i, lit) + 1, Whitespace)
        hits == {i \in 1..Len(out) :
                    /\ ColonAfter(out, i, lit) # 0
                    /\ start(i) <= Len(out)
                    /\ out[start(i)] \in Digits}
    IN  IF hits = {} THEN <<>>
        ELSE LET a == start(Least(hits))
             IN  <<SubSeq(out, a, SkipClass(out, a, Digits) - 1)>>

\* re.search(lit\s*:\s*(\S+), out): <<group 1>>, or <<>> for no match
SearchToken(out, lit) ==
    LET start(i) == SkipClass(out, ColonAfter(out, i, lit) + 1, Whitespace)
        hits == {i \in 1..Len(out) :
                    /\ ColonAfter(out, i, lit) # 0
                    /\ start(i) <= Len(out)}
    IN  IF hits = {} THEN <<>>
        ELSE LET a == start(Least(hits))
             IN  <<SubSeq(out, a, SkipNonSpace(out, a) - 1)>>

\* re.search(lit\s*:\s*(.+?)(?:\n|$), out): <<group 1 stripped>>, or <<>> for
\* no match.  \s* runs over line ends; when only whitespace follows the colon
\* it gives characters back to (.+?), which cannot start on a line end.
SearchLine(out, lit) ==
    LET start(i) == SkipClass(out, ColonAfter(out, i, lit) + 1, Whitespace)
        hits == {i \in 1..Len(out) :
                    /\ ColonAfter(out, i, lit) # 0
                    /\ \/ start(i) <= Len(out)
                       \/ \E j \in (ColonAfter(out, i, lit) + 1)..Len(out) : out[j] # "\n"}
    IN  IF hits = {} THEN <<>>
        ELSE LET a == start(Least(hits))
             IN  IF a > Len(out) THEN << <<>> >>
                 ELSE <<Strip(SubSeq(out, a, Find(out, a, "\n") - 1))>>

\* group 1 of Po\d+\s+(up|down), letter case ignored, lower-cased, when the
\* pattern matches out at position i; <<>> when it does not
PeerLinkAt(out, i) ==
    IF ~LitAtIgnoreCase(out, i, <<"p", "o">>) THEN <<>>
    ELSE LET d == SkipClass(out, i + 2, Digits)
             w == SkipClass(out, d, Whitespace)
         IN  IF d = i + 2 \/ w = d THEN <<>>
             ELSE IF LitAtIgnoreCase(out, w, <<"u", "p">>) THEN <<"u", "p">>
             ELSE IF LitAtIgnoreCase(out, w, <<"d", "o", "w", "n">>) THEN <<"d", "o", "w", "n">>
             ELSE <<>>

Unknown == <<"u", "n", "k", "n", "o", "w", "n">>

\* the conjunction without the peer-link term
HealthyWithoutPeerLink(peer_status, peer_keepalive_status, peer_link_status) ==
    /\ \/ Contains(Lower(peer_status), <<"o", "k">>)
       \/ Contains(Lower(peer_status), <<"f", "o", "r", "m", "e", "d">>)
    /\ Contains(Lower(peer_keepalive_status), <<"a", "l", "i", "v", "e">>)

\* is_healthy of parse_vpc_brief
Healthy(peer_status, peer_keepalive_status, peer_link_status) ==
    /\ \/ Contains(Lower(peer_status), <<"o", "k">>)
       \/ Contains(Lower(peer_status), <<"f", "o", "r", "m", "e", "d">>)
    /\ Contains(Lower(peer_keepalive_status), <<"a", "l", "i", "v", "e">>)
    /\ peer_link_status = <<"u", "p">>

parse_vpc_brief(out, switch_name) ==
    LET domain_match    == SearchNumber(out, <<"v", "P", "C", " ", "d", "o", "m", "a", "i", "n", " ", "i", "d">>)
        role_match      == SearchToken(out, <<"v", "P", "C", " ", "r", "o", "l", "e">>)
        peer_match      == SearchLine(out, <<"P", "e", "e", "r", " ", "s", "t", "a", "t", "u", "s">>)
        keepalive_match == SearchLine(out, <<"v", "P", "C", " ", "k", "e", "e", "p", "-", "a", "l", "i", "v", "e", " ", "s", "t", "a", "t", "u", "s">>)
        vpc_count_match == SearchNumber(out, <<"N", "u", "m", "b", "e", "r", " ", "o", "f", " ", "v", "P", "C", "s", " ", "c", "o", "n", "f", "i", "g", "u", "r", "e", "d">>)
        peerlink_hits   == {i \in 1..Len(out) : PeerLinkAt(out, i) # <<>>}
        peer_status     == IF peer_match = <<>> THEN Unknown ELSE peer_match[1]
        peer_keepalive_status ==
            IF keepalive_match = <<>> THEN Unknown ELSE keepalive_match[1]
        peer_link_status ==
            IF peerlink_hits = {} THEN Unknown
            ELSE PeerLinkAt(out, Least(peerlink_hits))
    IN  [kind                  |-> "vpc",
         switch                |-> switch_name,
         domain_id             |-> IF domain_match = <<>> THEN 0 ELSE ToInt(domain_match[1]),
         role                  |-> IF role_match = <<>> THEN Unknown ELSE role_match[1],
         peer_status           |-> peer_status,
         peer_keepalive_status |-> peer_keepalive_status,
         peer_link_status      |-> peer_link_status,
         vpc_count             |-> IF vpc_count_match = <<>> THEN 0
                                   ELSE ToInt(vpc_count_match[1]),
         is_healthy            |-> Healthy(peer_status, peer_keepalive_status,
                                           peer_link_status)]

-----------------------------------------------------------------------------
(* parsers/interface.py: parse_interface_counters                          *)

\* the field matches Eth\d+/\d+(?:/\d+)?|Po\d+
IsInterfaceName(f) ==
    \/ /\ StartsWith(f, <<"P", "o">>)
       /\ IsDigits(SubSeq(f, 3, Len(f)))
    \/ /\ StartsWith(f, <<"E", "t", "h">>)
       /\ LET r == SubSeq(f, 4, Len(f))
              slashes == {i \in 1..Len(r) : r[i] = "/"}
          IN  /\ Cardinality(slashes) \in {1, 2}
              /\ \A i \in 1..Len(r) : i \notin slashes => r[i] \in Digits
              /\ 1 \notin slashes
              /\ Len(r) \notin slashes
              /\ \A i \in slashes : i + 1 \notin slashes

\* the last group (\d+) of a pattern: the digits a field starts with
LeadingDigits(f) == SubSeq(f, 1, SkipClass(f, 1, Digits) - 1)

\* error_pattern.match(line), a name and six counters, tried first, then
\* simple_pattern.match(line), a name and two counters: <<[name, values]>>
\* for the pattern that matches, <<>> when neither does
CounterRow(line) ==
    LET f == Fields(line)
    IN  IF /\ Len(f) >= 7
           /\ IsInterfaceName(f[1])
           /\ \A k \in 2..6 : IsDigits(f[k])
           /\ LeadingDigits(f[7]) # <<>>
        THEN << [name   |-> f[1],
                 values |-> [k \in 1..6 |->
                               IF k < 6 THEN ToInt(f[k + 1])
                               ELSE ToInt(LeadingDigits(f[7]))]] >>
        ELSE IF /\ Len(f) >= 3
                /\ IsInterfaceName(f[1])
                /\ IsDigits(f[2])
                /\ LeadingDigits(f[3]) # <<>>
        THEN << [name   |-> f[1],
                 values |-> <<ToInt(f[2]), ToInt(LeadingDigits(f[3]))>>] >>
        ELSE <<>>

RECURSIVE Sum(_)
Sum(values) == IF values = <<>> THEN 0 ELSE Head(values) + Sum(Tail(values))

\* InterfaceErrors(name=name, input_errors=0, ..., has_errors=False)
InterfaceErrors(name) ==
    [name |-> name, input_errors |-> 0, output_errors |-> 0, crc_errors |-> 0,
     input_discards |-> 0, output_discards |-> 0, has_errors |-> FALSE]

\* the loop body setting has_errors for every matching row
AddRowFlagged(interfaces, row) ==
    LET known == \E i \in 1..Len(interfaces) : interfaces[i].name = row.name
        all   == IF known THEN interfaces
                 ELSE Append(interfaces, InterfaceErrors(row.name))
        k     == CHOOSE i \in 1..Len(all) : all[i].name = row.name
    IN  [all EXCEPT ![k].input_errors = @ + Sum(row.values),
                    ![k].has_errors = TRUE]

\* The body of the loop for one matching row: the dict `interfaces` is the
\* sequence of its values in insertion order.
AddRow(interfaces, row) ==
    LET known == \E i \in 1..Len(interfaces) : interfaces[i].name = row.name
        all   == IF known THEN interfaces
                 ELSE Append(interfaces, InterfaceErrors(row.name))
        k     == CHOOSE i \in 1..Len(all) : all[i].name = row.name
    IN  [all EXCEPT ![k].input_errors = @ + Sum(row.values),
                    ![k].has_errors = @ \/ \E v \in 1..Len(row.values) : row.values[v] > 0]

\* the dict after the first n rows
RECURSIVE InterfacesAfter(_, _)
InterfacesAfter(rows, n) ==
    IF n = 0 THEN <<>> ELSE AddRow(InterfacesAfter(rows, n - 1), rows[n])

parse_interface_counters(out, switch_name) ==
    LET rows == Records([i \in 1..Len(StrippedLinesOf(out)) |->
                        CounterRow(StrippedLinesOf(out)[i])])
        interface_list == InterfacesAfter(rows, Len(rows))
    IN  [kind       |-> "interface",
         switch     |-> switch_name,
         interfaces |-> interface_list,
         interfaces_with_errors |->
             Count([i \in 1..Len(interface_list) |-> interface_list[i].has_errors])]

-----------------------------------------------------------------------------
(* Issue extractors                                                        *)

\* An issue string is an f-string: `text` names its fixed words, `about` lists
\* the texts and `numbers` the integers interpolated after the switch name.
Issue(switch, text, about, numbers) ==
    [switch |-> switch, text |-> text, about |-> about, numbers |-> numbers]

\* the loop of get_ospf_issues alone
OspfIssuesWithoutEmptyCheck(result) ==
    LET unhealthy == SelectSeq(result.neighbors, LAMBDA n : ~n.is_healthy)
    IN  [i \in 1..Len(unhealthy) |->
            Issue(result.switch, "OSPF neighbor {} on {} is in {} state (not FULL)",
                  <<unhealthy[i].neighbor_id, unhealthy[i].interface, unhealthy[i].state>>,
                  <<>>)]

get_ospf_issues(result) ==
    LET unhealthy == SelectSeq(result.neighbors, LAMBDA n : ~n.is_healthy)
    IN  [i \in 1..Len(unhealthy) |->
            Issue(result.switch, "OSPF neighbor {} on {} is in {} state (not FULL)",
                  <<unhealthy[i].neighbor_id, unhealthy[i].interface, unhealthy[i].state>>,
                  <<>>)]
        \o (IF result.total_count = 0
            THEN <<Issue(result.switch, "No OSPF neighbors found", <<>>, <<>>)>>
            ELSE <<>>)

get_bgp_issues(result) ==
    LET down == SelectSeq(result.neighbors, LAMBDA n : ~n.is_established)
    IN  [i \in 1..Len(down) |->
            Issue(result.switch, "BGP EVPN neighbor {} is in {} state (not Established)",
                  <<down[i].neighbor_id, down[i].state>>, <<>>)]
        \o (IF result.total_count = 0
            THEN <<Issue(result.switch, "No BGP EVPN neighbors found", <<>>, <<>>)>>
            ELSE <<>>)

get_nve_issues(result) ==
    LET down == SelectSeq(result.peers, LAMBDA p : ~p.is_up)
    IN  [i \in 1..Len(down) |->
            Issue(result.switch, "NVE peer {} is {}",
                  <<down[i].peer_ip, down[i].state>>, <<>>)]
        \o (IF result.total_count = 0
            THEN <<Issue(result.switch, "No NVE peers found", <<>>, <<>>)>>
            ELSE <<>>)

\* get_vpc_issues without its check of the peer-link
VpcIssuesWithoutPeerLink(result) ==
    (IF /\ ~Contains(Lower(result.peer_status), <<"o", "k">>)
        /\ ~Contains(Lower(result.peer_status), <<"f", "o", "r", "m", "e", "d">>)
     THEN <<Issue(result.switch, "vPC peer status is '{}' (not OK)",
                  <<result.peer_status>>, <<>>)>>
     ELSE <<>>)
    \o (IF ~Contains(Lower(result.peer_keepalive_status), <<"a", "l", "i", "v", "e">>)
        THEN <<Issue(result.switch, "vPC keepalive status is '{}'",
                     <<result.peer_keepalive_status>>, <<>>)>>
        ELSE <<>>)

get_vpc_issues(result) ==
    (IF /\ ~Contains(Lower(result.peer_status), <<"o", "k">>)
        /\ ~Contains(Lower(result.peer_status), <<"f", "o", "r", "m", "e", "d">>)
     THEN <<Issue(result.switch, "vPC peer status is '{}' (not OK)",
                  <<result.peer_status>>, <<>>)>>
     ELSE <<>>)
    \o (IF ~Contains(Lower(result.peer_keepalive_status), <<"a", "l", "i", "v", "e">>)
        THEN <<Issue(result.switch, "vPC keepalive status is '{}'",
                     <<result.peer_keepalive_status>>, <<>>)>>
        ELSE <<>>)
    \o (IF result.peer_link_status # <<"u", "p">>
        THEN <<Issue(result.switch, "vPC peer-link is {}",
                     <<result.peer_link_status>>, <<>>)>>
        ELSE <<>>)

get_interface_issues(result) ==
    LET bad == SelectSeq(result.interfaces, LAMBDA i : i.has_errors)
    IN  [i \in 1..Len(bad) |->
            Issue(result.switch, "Interface {} has errors (input: {}, output: {})",
                  <<bad[i].name>>, <<bad[i].input_errors, bad[i].output_errors>>)]

-----------------------------------------------------------------------------
(* Parsers and issue extractors applied to bounded command outputs         *)

\* longest table handed to a parser, in lines
MaxLines == 2

OspfLines ==
    { <<"1", "9", "2", ".", "1", "6", "8", ".", "0", ".", "1", " ", "1", " ", "F", "U", "L", "L", "/", "D", "R", " ", "2", "d", "0", "3", "h", " ", "1", "9", "2", ".", "1", "6", "8", ".", "3", ".", "4", "0", " ", "E", "t", "h", "1", "/", "2", "9">>,
      <<"1", "9", "2", ".", "1", "6", "8", ".", "0", ".", "2", " ", "1", " ", "E", "X", "S", "T", "A", "R", "T", "/", "-", " ", "0", "0", ":", "0", "0", ":", "3", "3", " ", "1", "9", "2", ".", "1", "6", "8", ".", "3", ".", "4", "4", " ", "E", "t", "h", "1", "/", "3", "0">>,
      <<" ", "1", "9", "2", ".", "1", "6", "8", ".", "0", ".", "3", " ", " ", " ", "1", " ", "f", "u", "l", "l", "/", "B", "D", "R", " ", " ", "2", "d", "0", "3", "h", "\t", "1", "9", "2", ".", "1", "6", "8", ".", "3", ".", "4", "8", " ", " ", "E", "t", "h", "1", "/", "3", "1", " ">>,
      <<"1", "9", "2", ".", "1", "6", "8", ".", "0", ".", "4", " ", "0", " ", "F", "U", "L", "L", " ", "2", "d", " ", "1", "9", "2", ".", "1", "6", "8", ".", "3", ".", "5", "2", " ", "E", "t", "h", "1", "/", "3", "2">>,
      <<"1", "9", "2", ".", "1", "6", "8", ".", "0", ".", "5", " ", "1", " ", "2", "W", "A", "Y", "/", "D", "R", "O", "T", "H", "E", "R", " ", "1", "d", " ", "1", "9", "2", ".", "1", "6", "8", ".", "3", ".", "5", "6", " ", "E", "t", "h", "1", "/", "3", "3">>,
      <<"1", "9", "2", ".", "1", "6", "8", ".", "0", ".", "6", " ", "1", " ", "F", "U", "L", "L", "Y", "/", "D", "R", " ", "1", "d", " ", "1", "9", "2", ".", "1", "6", "8", ".", "3", ".", "6", "0", " ", "E", "t", "h", "1", "/", "3", "4">>,
      <<"1", "9", "2", ".", "1", "6", "8", ".", "0", ".", "7", " ", "1", " ", "/", "F", "U", "L", "L", " ", "1", "d", " ", "1", "9", "2", ".", "1", "6", "8", ".", "3", ".", "6", "4", " ", "E", "t", "h", "1", "/", "3", "5">>,
      <<"N", "e", "i", "g", "h", "b", "o", "r", " ", "I", "D", " ", " ", " ", " ", " ", "P", "r", "i", " ", "S", "t", "a", "t", "e", " ", " ", " ", "U", "p", " ", "T", "i", "m", "e", " ", " ", "A", "d", "d", "r", "e", "s", "s", " ", " ", " ", "I", "n", "t", "e", "r", "f", "a", "c", "e">>,
      <<"1", "9", "2", ".", "1", "6", "8", ".", "0", ".", "8", " ", "1", " ", "F", "U", "L", "L", "/", "D", "R", " ", "2", "d", "0", "3", "h">>,
      <<>> }

BgpLines ==
    { <<"1", "0", ".", "0", ".", "0", ".", "1", " ", "4", " ", "6", "4", "9", "9", "6", " ", "5", " ", "6", " ", "7", " ", "0", " ", "0", " ", "2", "d", "0", "3", "h", " ", "1", "5", "0">>,
      <<"1", "0", ".", "0", ".", "0", ".", "2", " ", "4", " ", "6", "4", "9", "9", "6", " ", "5", " ", "6", " ", "7", " ", "0", " ", "0", " ", "2", "d", "0", "3", "h", " ", "0">>,
      <<"1", "0", ".", "0", ".", "0", ".", "3", " ", "4", " ", "6", "4", "9", "9", "7", " ", "5", " ", "6", " ", "7", " ", "0", " ", "0", " ", "0", "0", ":", "0", "1", ":", "0", "2", " ", "I", "d", "l", "e">>,
      <<"1", "0", ".", "0", ".", "0", ".", "4", " ", "4", " ", "6", "4", "9", "9", "7", " ", "5", " ", "6", " ", "7", " ", "0", " ", "0", " ", "n", "e", "v", "e", "r", " ", "A", "c", "t", "i", "v", "e">>,
      <<"1", "0", ".", "0", ".", "0", ".", "5", " ", "4", " ", "6", "4", "9", "9", "7", " ", "5", " ", "6", " ", "7", " ", "0", " ", "0", " ", "1", "d", " ", "-", "1">>,
      <<"1", "0", ".", "0", ".", "0", ".", "6", " ", "4", " ", "6", "4", "9", "9", "7", " ", "5", " ", "6", " ", "7", " ", "0", " ", "0", " ", "1", "d", " ", "1", "_", "0">>,
      <<"1", "0", ".", "0", ".", "0", ".", "7", " ", "4", " ", "6", "4", "9", "9", "7", " ", "5", " ", "6", " ", "7", " ", "0", " ", "0", " ", "1", "d", " ", "1", "2", "a">>,
      <<"1", "0", ".", "0", ".", "0", ".", "8", " ", "4", " ", "6", "4", "9", "9", "7", " ", "5", " ", "6", " ", "7", " ", "0", " ", "0", " ", "1", "d", " ", "S", "h", "u", "t", " ", "(", "A", "d", "m", "i", "n", ")">>,
      <<"1", "0", ".", "0", ".", "0", ".", "9", " ", "4", " ", "6", "4", "9", "9", "7", " ", "5", " ", "6", " ", "x", " ", "0", " ", "0", " ", "1", "d", " ", "1", "5", "0">>,
      <<"B", "G", "P", " ", "r", "o", "u", "t", "e", "r", " ", "i", "d", "e", "n", "t", "i", "f", "i", "e", "r", " ", "1", "0", ".", "0", ".", "0", ".", "7", ",", " ", "l", "o", "c", "a", "l", " ", "A", "S", " ", "n", "u", "m", "b", "e", "r", " ", "6", "4", "9", "9", "6">>,
      <<"N", "e", "i", "g", "h", "b", "o", "r", " ", "V", " ", "A", "S", " ", "M", "s", "g", "R", "c", "v", "d", " ", "M", "s", "g", "S", "e", "n", "t", " ", "T", "b", "l", "V", "e", "r", " ", "I", "n", "Q", " ", "O", "u", "t", "Q", " ", "U", "p", "/", "D", "o", "w", "n", " ", "S", "t", "a", "t", "e", "/", "P", "f", "x", "R", "c", "d">> }

NveLines ==
    { <<"n", "v", "e", "1", " ", "1", "0", ".", "1", ".", "1", ".", "1", " ", "U", "p", " ", "C", "P", " ", "2", "d", "0", "3", "h", " ", "5", "2", "5", "4", ".", "0", "0", "1", "2", ".", "3", "4", "5", "6">>,
      <<"n", "v", "e", "1", " ", "1", "0", ".", "1", ".", "1", ".", "2", " ", "D", "o", "w", "n", " ", "C", "P", " ", "0", " ", "n", "/", "a">>,
      <<"n", "v", "e", "1", " ", "1", "0", ".", "1", ".", "1", ".", "3", " ", "u", "p", " ", "D", "P", " ", "1", "d", " ", "5", "2", "5", "4", ".", "0", "0", "1", "2", ".", "3", "4", "5", "7">>,
      <<"n", "v", "e", "1", " ", "1", "0", ".", "1", ".", "1", ".", "4", " ", "U", "P", " ", "C", "P", " ", "1", "d", " ", "5", "2", "5", "4", ".", "0", "0", "1", "2", ".", "3", "4", "5", "8">>,
      <<"n", "v", "e", "1", " ", "1", "0", ".", "1", ".", "1", ".", "5", " ", "U", "p", "-", "p", "e", "n", "d", "i", "n", "g", " ", "C", "P", " ", "1", "d">>,
      <<"n", "v", "e", " ", "1", "0", ".", "1", ".", "1", ".", "6", " ", "U", "p", " ", "C", "P", " ", "1", "d">>,
      <<"I", "n", "t", "e", "r", "f", "a", "c", "e", " ", "P", "e", "e", "r", "-", "I", "P", " ", "S", "t", "a", "t", "e", " ", "L", "e", "a", "r", "n", "T", "y", "p", "e", " ", "U", "p", "t", "i", "m", "e", " ", "R", "o", "u", "t", "e", "r", "-", "M", "a", "c">> }

CounterLines ==
    { <<"E", "t", "h", "1", "/", "1", " ", "0", " ", "0", " ", "0", " ", "0", " ", "0", " ", "0">>,
      <<"E", "t", "h", "1", "/", "1", " ", "0", " ", "3", " ", "0", " ", "0", " ", "0", " ", "4">>,
      <<"E", "t", "h", "1", "/", "1", " ", "0", " ", "0">>,
      <<"E", "t", "h", "1", "/", "1", " ", "2", " ", "1">>,
      <<"E", "t", "h", "1", "/", "2", " ", "0", " ", "0", " ", "5">>,
      <<"E", "t", "h", "1", "/", "2", " ", "7">>,
      <<"E", "t", "h", "1", "/", "2", " ", "0", " ", "0", " ", "0", " ", "0", " ", "0", " ", "0", " ", "9">>,
      <<"P", "o", "5", "0", "0", " ", "0", " ", "0", " ", "0", " ", "0", " ", "0", " ", "1">>,
      <<"E", "t", "h", "1", "/", "1", "/", "2", " ", "1", " ", "0">>,
      <<"P", "o", "r", "t", " ", "G", "i", "a", "n", "t", "s", " ", "I", "n", "D", "i", "s", "c", "a", "r", "d", "s">> }

\* "\n".join(lines)
RECURSIVE JoinLines(_)
JoinLines(lines) ==
    IF lines = <<>> THEN <<>>
    ELSE IF Len(lines) = 1 THEN lines[1]
    ELSE Head(lines) \o <<"\n">> \o JoinLines(Tail(lines))

Tables(lineSet) == {JoinLines(ls) : ls \in UNION {[1..n -> lineSet] : n \in 1..MaxLines}}

VpcHeads ==
    { <<>>,
      <<"v", "P", "C", " ", "d", "o", "m", "a", "i", "n", " ", "i", "d", " ", ":", " ", "5", "\n", "v", "P", "C", " ", "r", "o", "l", "e", " ", ":", " ", "p", "r", "i", "m", "a", "r", "y", "\n", "N", "u", "m", "b", "e", "r", " ", "o", "f", " ", "v", "P", "C", "s", " ", "c", "o", "n", "f", "i", "g", "u", "r", "e", "d", " ", ":", " ", "1", "0", "\n">> }

VpcPeerLines ==
    { <<>>,
      <<"P", "e", "e", "r", " ", "s", "t", "a", "t", "u", "s", " ", " ", " ", " ", " ", " ", " ", " ", " ", " ", " ", " ", " ", " ", " ", " ", " ", " ", " ", " ", " ", " ", " ", ":", " ", "p", "e", "e", "r", " ", "a", "d", "j", "a", "c", "e", "n", "c", "y", " ", "f", "o", "r", "m", "e", "d", " ", "o", "k", "\n">>,
      <<"P", "e", "e", "r", " ", "s", "t", "a", "t", "u", "s", " ", ":", " ", "p", "e", "e", "r", " ", "l", "i", "n", "k", " ", "i", "s", " ", "d", "o", "w", "n", "\n">>,
      <<"P", "e", "e", "r", " ", "s", "t", "a", "t", "u", "s", " ", ":", " ", "P", "e", "e", "r", " ", "O", "K", "\n">>,
      <<"P", "e", "e", "r", " ", "s", "t", "a", "t", "u", "s", " ", ":", "\n">> }

VpcKeepaliveLines ==
    { <<>>,
      <<"v", "P", "C", " ", "k", "e", "e", "p", "-", "a", "l", "i", "v", "e", " ", "s", "t", "a", "t", "u", "s", " ", " ", " ", " ", " ", " ", " ", " ", " ", " ", " ", " ", " ", ":", " ", "p", "e", "e", "r", " ", "i", "s", " ", "a", "l", "i", "v", "e", "\n">>,
      <<"v", "P", "C", " ", "k", "e", "e", "p", "-", "a", "l", "i", "v", "e", " ", "s", "t", "a", "t", "u", "s", " ", ":", " ", "S", "u", "s", "p", "e", "n", "d", "e", "d", " ", "(", "D", "e", "s", "t", "i", "n", "a", "t", "i", "o", "n", " ", "I", "P", " ", "n", "o", "t", " ", "r", "e", "a", "c", "h", "a", "b", "l", "e", ")", "\n">>,
      <<"v", "P", "C", " ", "k", "e", "e", "p", "-", "a", "l", "i", "v", "e", " ", "s", "t", "a", "t", "u", "s", " ", ":", " ", "P", "e", "e", "r", " ", "i", "s", " ", "A", "l", "i", "v", "e", "\n">> }

VpcPeerLinkLines ==
    { <<>>,
      <<"1", " ", " ", " ", " ", "P", "o", "5", "0", "0", " ", " ", "u", "p", " ", " ", " ", " ", " ", "1", ",", "5", "9", ",", "1", "3", "4", "-", "1", "6", "2", "\n">>,
      <<"1", " ", " ", " ", " ", "P", "o", "5", "0", "0", " ", " ", "d", "o", "w", "n", " ", " ", " ", "-", "\n">>,
      <<"1", " ", "P", "o", "5", "0", "0", " ", "U", "P", " ", "1", "\n">>,
      <<"1", " ", "P", "o", " ", "u", "p", "\n">> }

VpcBriefs ==
    {h \o p \o k \o l :
        h \in VpcHeads, p \in VpcPeerLines, k \in VpcKeepaliveLines, l \in VpcPeerLinkLines}

\* the command outputs handed to the parsers
Outputs ==
    {<<>>} \cup Tables(OspfLines) \cup Tables(BgpLines) \cup Tables(NveLines)
           \cup Tables(CounterLines) \cup VpcBriefs

SwitchNames == {LabelOf(h) : h \in Hosts}

NoIssues == [returned |-> FALSE, list |-> <<>>]

ParseOspf ==
    /\ parsed.kind = "none"
    /\ \E name \in SwitchNames : parsed' = parse_ospf_neighbors(rawOutput, name)
    /\ UNCHANGED <<rawOutput, issues, validateVars, poolVars, llmVars, redactVars, cacheVars, sessionVars>>

ParseBgp ==
    /\ parsed.kind = "none"
    /\ \E name \in SwitchNames : parsed' = parse_bgp_evpn_summary(rawOutput, name)
    /\ UNCHANGED <<rawOutput, issues, validateVars, poolVars, llmVars, redactVars, cacheVars, sessionVars>>

ParseNve ==
    /\ parsed.kind = "none"
    /\ \E name \in SwitchNames : parsed' = parse_nve_peers(rawOutput, name)
    /\ UNCHANGED <<rawOutput, issues, validateVars, poolVars, llmVars, redactVars, cacheVars, sessionVars>>

ParseVpc ==
    /\ parsed.kind = "none"
    /\ \E name \in SwitchNames : parsed' = parse_vpc_brief(rawOutput, name)
    /\ UNCHANGED <<rawOutput, issues, validateVars, poolVars, llmVars, redactVars, cacheVars, sessionVars>>

ParseCounters ==
    /\ parsed.kind = "none"
    /\ \E name \in SwitchNames : parsed' = parse_interface_counters(rawOutput, name)
    /\ UNCHANGED <<rawOutput, issues, validateVars, poolVars, llmVars, redactVars, cacheVars, sessionVars>>

\* the issue extractor of the result's type is applied to the result
GetIssues ==
    /\ parsed.kind # "none"
    /\ ~issues.returned
    /\ issues' = [returned |-> TRUE,
                  list |-> CASE parsed.kind = "ospf"      -> get_ospf_issues(parsed)
                             [] parsed.kind = "bgp"       -> get_bgp_issues(parsed)
                             [] parsed.kind = "nve"       -> get_nve_issues(parsed)
                             [] parsed.kind = "vpc"       -> get_vpc_issues(parsed)
                             [] parsed.kind = "interface" -> get_interface_issues(parsed)]
    /\ UNCHANGED <<rawOutput, parsed, validateVars, poolVars, llmVars, redactVars, cacheVars, sessionVars>>

InitParse ==
    /\ rawOutput \in Outputs
    /\ parsed = [kind |-> "none"]
    /\ issues = NoIssues
    /\ ValidatorIdle
    /\ PoolInit
    /\ RedactorIdle
    /\ CacheIdle
    /\ SessionIdle
    /\ LlmIdle

NextParse ==
    \/ ParseOspf
    \/ ParseBgp
    \/ ParseNve
    \/ ParseVpc
    \/ ParseCounters
    \/ GetIssues

SpecParse == InitParse /\ [][NextParse]_vars

-----------------------------------------------------------------------------
(* tool-sample: my-tool cache commands (my_tool/cli.py)                    *)

\* number of cache commands run one after the other
MaxRuns == 3

\* what a command left behind: its exit code and what it echoed
Ran(command, echoed) == [command |-> command, exit_code |-> 0, echoed |-> echoed]

\* cache_clear leaving the file in place
UnlinkSkipped(file) == file

\* Path.unlink of an existing file
Unlink(file) == "absent"

\* `my-tool cache clear`, run to its end
CacheClear ==
    /\ Len(cacheLog) < MaxRuns
    /\ IF cacheFile # "absent"
       THEN /\ cacheFile' = Unlink(cacheFile)
            /\ cacheLog' = Append(cacheLog, Ran("clear", <<"Cache cleared.">>))
       ELSE /\ cacheFile' = cacheFile
            /\ cacheLog' = Append(cacheLog, Ran("clear", <<"Cache is already empty.">>))
    /\ cachePc' = "returned"
    /\ UNCHANGED <<validateVars, poolVars, llmVars, redactVars, parseVars, sessionVars>>

\* `my-tool cache status`, run to its end
CacheStatus ==
    /\ Len(cacheLog) < MaxRuns
    /\ cacheLog' = Append(cacheLog,
                          Ran("status",
                              <<"Cache directory: /tmp/my-tool-cache",
                                "Cache file: /tmp/my-tool-cache/data.json",
                                IF cacheFile # "absent" THEN "Exists: True"
                                ELSE "Exists: False">>
                              \o (IF cacheFile = "file" THEN <<"Size: {} bytes">> ELSE <<>>)))
    /\ cachePc' = "returned"
    /\ UNCHANGED <<cacheFile, validateVars, poolVars, llmVars, redactVars, parseVars, sessionVars>>

\* Between two commands the cache file is written by whoever fills the cache:
\* with data, or empty.
CacheWrite ==
    /\ \E f \in {"file", "empty_file"} : cacheFile' = f
    /\ cacheFile' # cacheFile
    /\ cachePc' = "idle"
    /\ UNCHANGED <<cacheLog, validateVars, poolVars, llmVars, redactVars, parseVars, sessionVars>>

InitCache ==
    /\ cacheFile \in {"absent", "file", "empty_file"}
    /\ cachePc = "idle"
    /\ cacheLog = <<>>
    /\ ValidatorIdle
    /\ PoolInit
    /\ RedactorIdle
    /\ ParserIdle
    /\ SessionIdle
    /\ LlmIdle

NextCache ==
    \/ CacheClear
    \/ CacheStatus
    \/ CacheWrite

SpecCache == InitCache /\ [][NextCache]_vars

-----------------------------------------------------------------------------
(* CiscoSSHClient used on its own: one client object shared by coroutines  *)

\* coroutines that share the client
MaxCallers == 2

\* calls of connect, execute_command and disconnect they make altogether
MaxCalls == 3

Callers == 1..MaxCallers

\* what the awaited asyncssh.connect can do
SessionConnectOutcomes == ConnectOutcomes \cup {"asyncssh.Error", "OSError"}

\* what the awaited connection.run can do
SessionRunOutcomes ==
    RunOutcomes \cup
    { Completed(TextUp, <<>>, 2),
      [kind |-> "asyncssh.Error", stdout |-> <<>>, stderr |-> <<>>, exit_status |-> 0] }

\* a coroutine that has received no result of a run
NoReply == [kind |-> "none", stdout |-> <<>>, stderr |-> <<>>, exit_status |-> 0]

\* a coroutine between two calls; `reply` is what the run of its last
\* execute_command came back with
IdleCaller ==
    [pc |-> "idle", conn |-> None, command |-> <<>>, outcome |-> Pending, reply |-> NoReply]

\* the call of caller c ends: it returns or raises o
Ends(c, o) == callers' = [callers EXCEPT ![c] = [IdleCaller EXCEPT !.outcome = o]]

\* connect() from `if not self.key_file.exists()` to the await of
\* asyncssh.connect, where the coroutine waits at `waitAt`; `command` is what
\* execute_command goes on with afterwards
KeyFileCheck(c, waitAt, command) ==
    \E keyFileExists \in BOOLEAN :
        IF keyFileExists
        THEN /\ callers' = [callers EXCEPT ![c].pc = waitAt, ![c].command = command,
                                           ![c].outcome = Pending]
             /\ attempts' = attempts + 1
        ELSE /\ Ends(c, Raise("SSHConnectionError", "SSH key file not found", <<>>))
             /\ attempts' = attempts

\* result = await self._connection.run(full_command, ...) is started by
\* caller c; k is the connection self._connection holds at that moment
StartRun(c, k, command, opened) ==
    /\ callers' = [callers EXCEPT ![c].pc = "running", ![c].conn = k,
                                  ![c].command = command, ![c].outcome = Pending]
    /\ transport' = [opened EXCEPT ![k].lines = Append(@, FullCommand(command))]

\* client.connect() up to its first await
Connect(c) ==
    /\ callers[c].pc = "idle"
    /\ started < MaxCalls
    /\ started' = started + 1
    /\ IF connection # None
       THEN Ends(c, Return(<<>>)) /\ attempts' = attempts
       ELSE KeyFileCheck(c, "connecting", <<>>)
    /\ UNCHANGED <<connection, transport, disconnected,
                   validateVars, poolVars, llmVars, redactVars, parseVars, cacheVars>>

\* client.execute_command(command) up to its first await
ExecuteCommand(c, command) ==
    /\ callers[c].pc = "idle"
    /\ started < MaxCalls
    /\ started' = started + 1
    /\ IF validate_command(command) # "ok"
       THEN /\ Ends(c, Raise("InvalidCommandError", "Command is not allowed", command))
            /\ UNCHANGED <<transport, attempts>>
       ELSE IF connection = None
       THEN /\ KeyFileCheck(c, "lazy_connecting", command)
            /\ transport' = transport
       ELSE /\ StartRun(c, connection, command, transport)
            /\ attempts' = attempts
    /\ UNCHANGED <<connection, disconnected,
                   validateVars, poolVars, llmVars, redactVars, parseVars, cacheVars>>

\* The awaited asyncssh.connect comes back: connect() stores the connection
\* or raises SSHConnectionError.  execute_command, which awaited connect(),
\* goes on to run the command on self._connection without suspending.
ConnectResumes(c) ==
    /\ callers[c].pc \in {"connecting", "lazy_connecting"}
    /\ \E r \in SessionConnectOutcomes :
          IF r = "connected"
          THEN LET k == Len(transport) + 1
                   opened == Append(transport, [state |-> "open", lines |-> <<>>])
               IN  /\ connection' = k
                   /\ IF callers[c].pc = "connecting"
                      THEN /\ Ends(c, Return(<<>>))
                           /\ transport' = opened
                      ELSE StartRun(c, k, callers[c].command, opened)
          ELSE /\ Ends(c, Raise("SSHConnectionError", ConnectMessage(r), <<>>))
               /\ UNCHANGED <<connection, transport>>
    /\ UNCHANGED <<started, attempts, disconnected, validateVars, poolVars, llmVars, redactVars, parseVars, cacheVars>>

\* The awaited run comes back; on a connection that is closing or closed it
\* can only fail with asyncssh.Error.
RunResumes(c) ==
    /\ callers[c].pc = "running"
    /\ \E r \in SessionRunOutcomes :
          /\ transport[callers[c].conn].state # "open" => r.kind = "asyncssh.Error"
          /\ callers' = [callers EXCEPT
                             ![c] = [IdleCaller EXCEPT !.outcome = ExecuteResult(r),
                                                       !.reply = r]]
    /\ UNCHANGED <<started, attempts, connection, transport, disconnected,
                   validateVars, poolVars, llmVars, redactVars, parseVars, cacheVars>>

\* self._connection = None of disconnect left out
ConnectionKept(conn) == conn

\* self._connection = None at the end of disconnect
ConnectionAfterClose(conn) == None

\* client.disconnect() up to its await: close() and the start of wait_closed()
Disconnect(c) ==
    /\ callers[c].pc = "idle"
    /\ started < MaxCalls
    /\ started' = started + 1
    /\ IF connection # None
       THEN /\ transport' = [transport EXCEPT ![connection].state = "closing"]
            /\ callers' = [callers EXCEPT ![c].pc = "closing", ![c].conn = connection,
                                          ![c].outcome = Pending]
       ELSE /\ Ends(c, Return(<<>>))
            /\ transport' = transport
    /\ UNCHANGED <<connection, disconnected, attempts,
                   validateVars, poolVars, llmVars, redactVars, parseVars, cacheVars>>

\* the awaited wait_closed comes back and disconnect() ends
DisconnectResumes(c) ==
    /\ callers[c].pc = "closing"
    /\ transport' = [transport EXCEPT ![callers[c].conn].state = "closed"]
    /\ connection' = ConnectionAfterClose(connection)
    /\ disconnected' = TRUE
    /\ Ends(c, Return(<<>>))
    /\ UNCHANGED <<started, attempts, validateVars, poolVars, llmVars, redactVars, parseVars, cacheVars>>

InitSession ==
    /\ connection = None
    /\ transport = <<>>
    /\ callers = [c \in Callers |-> IdleCaller]
    /\ disconnected = FALSE
    /\ started = 0
    /\ attempts = 0
    /\ ValidatorIdle
    /\ PoolInit
    /\ RedactorIdle
    /\ ParserIdle
    /\ CacheIdle
    /\ LlmIdle

NextSession ==
    \/ \E c \in Callers : Connect(c)
    \/ \E c \in Callers : \E command \in PoolCommands : ExecuteCommand(c, command)
    \/ \E c \in Callers : ConnectResumes(c)
    \/ \E c \in Callers : RunResumes(c)
    \/ \E c \in Callers : Disconnect(c)
    \/ \E c \in Callers : DisconnectResumes(c)

SpecSession == InitSession /\ [][NextSession]_vars

-----------------------------------------------------------------------------
(* call_llm of skill-evolver/scripts/evolve_loop.py                        *)

\* largest max_retries handed to call_llm
MaxRetries == 3

\* a byte that is not valid UTF-8
InvalidByte == "0xff"

\* bytes.decode('utf-8'): <<text>>, or <<>> for UnicodeDecodeError
decode(bytes) ==
    IF \E i \in 1..Len(bytes) : bytes[i] = InvalidByte THEN <<>> ELSE <<bytes>>

\* How an attempt can end: create_subprocess_exec or communicate raises, or
\* the process exits with a return code and its stdout.
Raised == [kind |-> "raised", returncode |-> 0, stdout |-> <<>>]

Exited(rc, out) == [kind |-> "exited", returncode |-> rc, stdout |-> out]

AttemptOutcomes ==
    { Raised,
      Exited(1, <<"n", "o">>),
      Exited(0, <<" ", "o", "k", "\n">>),
      Exited(0, <<>>),
      Exited(0, <<"o", InvalidByte>>) }

\* return None
ReturnedNone == [kind |-> "None", value |-> <<>>]

\* return stdout.decode('utf-8').strip()
ReturnedStr(text) == [kind |-> "str", value |-> text]

\* a backoff after every failed attempt, the last one included
BackoffAlways(i, retries) == TRUE

\* `if attempt < max_retries - 1` before asyncio.sleep
Backoff(i, retries) == i < retries - 1

\* call_llm(prompt, temperature, cli, max_retries) is called
CallLlm ==
    /\ llmPc = "idle"
    /\ \E retries \in 0..MaxRetries : maxRetries' = retries
    /\ attempt' = 0
    /\ llmPc' = "loop"
    /\ UNCHANGED <<promptFiles, tried, sleeps, llmResult,
                   validateVars, poolVars, redactVars, parseVars, cacheVars, sessionVars>>

\* `for attempt in range(max_retries)` starts an attempt: the prompt file is
\* written and the subprocess started; or the loop is over and None returned
LoopStep ==
    /\ llmPc = "loop"
    /\ IF attempt < maxRetries
       THEN /\ promptFiles' = promptFiles \cup {attempt}
            /\ llmPc' = "communicating"
            /\ llmResult' = llmResult
       ELSE /\ llmResult' = ReturnedNone
            /\ llmPc' = "returned"
            /\ promptFiles' = promptFiles
    /\ UNCHANGED <<maxRetries, attempt, tried, sleeps,
                   validateVars, poolVars, redactVars, parseVars, cacheVars, sessionVars>>

\* after a failed attempt: the sleep of the backoff, or the next iteration
AfterFailure ==
    IF Backoff(attempt, maxRetries)
    THEN /\ llmPc' = "sleeping"
         /\ sleeps' = Append(sleeps, 2 ^ attempt)
         /\ attempt' = attempt
    ELSE /\ llmPc' = "loop"
         /\ sleeps' = sleeps
         /\ attempt' = attempt + 1

\* The awaited subprocess comes back, or raises.  The prompt file is
\* unlinked on both paths; a return code 0 returns the decoded, stripped
\* stdout, and a UnicodeDecodeError of the decoding is caught by
\* `except Exception` like any other exception of the attempt.
AttemptEnds ==
    /\ llmPc = "communicating"
    /\ \E r \in AttemptOutcomes :
          /\ tried' = Append(tried, r)
          /\ promptFiles' = promptFiles \ {attempt}
          /\ IF r.kind = "exited" /\ r.returncode = 0 /\ decode(r.stdout) # <<>>
             THEN /\ llmResult' = ReturnedStr(Strip(decode(r.stdout)[1]))
                  /\ llmPc' = "returned"
                  /\ UNCHANGED <<sleeps, attempt>>
             ELSE /\ AfterFailure
                  /\ llmResult' = llmResult
    /\ UNCHANGED <<maxRetries,
                   validateVars, poolVars, redactVars, parseVars, cacheVars, sessionVars>>

\* the awaited asyncio.sleep comes back
SleepEnds ==
    /\ llmPc = "sleeping"
    /\ llmPc' = "loop"
    /\ attempt' = attempt + 1
    /\ UNCHANGED <<maxRetries, promptFiles, tried, sleeps, llmResult,
                   validateVars, poolVars, redactVars, parseVars, cacheVars, sessionVars>>

InitLlm ==
    /\ LlmIdle
    /\ ValidatorIdle
    /\ PoolInit
    /\ RedactorIdle
    /\ ParserIdle
    /\ CacheIdle
    /\ SessionIdle

NextLlm ==
    \/ CallLlm
    \/ LoopStep
    \/ AttemptEnds
    \/ SleepEnds

\* the event loop resumes the coroutine once the subprocess it awaits has
\* exited or the sleep is over
SpecLlm == InitLlm /\ [][NextLlm]_vars /\ WF_vars(NextLlm)

-----------------------------------------------------------------------------
(* Properties of the command validator                                     *)

ClearCounters == <<"c", "l", "e", "a", "r", " ", "c", "o", "u", "n", "t", "e", "r", "s">>

ClearSpace == <<"c", "l", "e", "a", "r", " ">>

\* the allow-list as the specification gives it
ReadOnlyPrefixes ==
    { <<"s", "h", "o", "w", " ">>,
      <<"d", "i", "s", "p", "l", "a", "y", " ">>,
      <<"d", "i", "r", " ">>,
      <<"p", "w", "d">>,
      <<"t", "e", "r", "m", "i", "n", "a", "l", " ", "l", "e", "n", "g", "t", "h">>,
      <<"t", "e", "r", "m", "i", "n", "a", "l", " ", "w", "i", "d", "t", "h">> }

\* C2: validate_command accepts a command exactly when its trimmed,
\* lower-cased form starts with one of the six allow-listed prefixes and
\* matches no denylist pattern; every other command raises
\* InvalidCommandError.
C2_BothGates ==
    verdict # "pending" =>
        LET cmd == Lower(Strip(vcmd))
            allowed == \E p \in ReadOnlyPrefixes : StartsWith(cmd, p)
            denied == \E i \in 1..Len(BLOCKED_COMMAND_PATTERNS) :
                          ReMatch(BLOCKED_COMMAND_PATTERNS[i], cmd)
        IN  /\ verdict \in {"ok", "InvalidCommandError"}
            /\ verdict = "ok" <=> (allowed /\ ~denied)

\* a command that needed trimming and case folding was accepted
C2_Witness ==
    /\ verdict = "ok"
    /\ Strip(vcmd) # vcmd
    /\ Lower(vcmd) # vcmd

\* C3: a command beginning with 'clear counters' is not rejected, and every
\* other command beginning with 'clear ' is rejected.
C3_ClearCountersAllowed ==
    verdict # "pending" =>
        LET cmd == Lower(Strip(vcmd))
        IN  /\ StartsWith(cmd, ClearCounters) => verdict = "ok"
            /\ (StartsWith(cmd, ClearSpace) /\ ~StartsWith(cmd, ClearCounters))
                   => verdict = "InvalidCommandError"

-----------------------------------------------------------------------------
(* Properties of the session pool                                          *)

\* no coroutine of the pool waits in the lazy connect of execute_command
PoolNeverConnectsLazily == \A t \in Tasks : pc[t] # "lazy_connecting"

\* the coroutines of the batch that have called pool.execute_command
Called == {t \in BatchTasks : pc[t] \notin {"unused", "idle"}}

\* C1: for a command the validator rejects, execution reports
\* InvalidCommandError and neither connect nor run is invoked on the
\* transport, also when the device has no pooled session yet.
C1_RejectedWithoutTransportIO ==
    \A t \in Called :
        validate_command(arg[t].command) # "ok" =>
            /\ calls[t].connect = 0
            /\ calls[t].run = 0
            /\ pc[t] = "done" => /\ outcome[t].kind = "raise"
                                 /\ outcome[t].exc = "InvalidCommandError"

\* C4: the pool holds at most one session per device and at most one
\* transport connection is established per device between two close_all
\* calls; a get for a pooled device returns the stored session and does not
\* connect.
C4_OneSessionPerDevice ==
    /\ [](/\ \A h \in Hosts : established[h] <= 1
          /\ \A h \in DOMAIN connections : clients[connections[h]].host = h
          /\ \A c1, c2 \in DOMAIN clients :
                (/\ clients[c1].host = clients[c2].host
                 /\ clients[c1].connection = "open"
                 /\ clients[c2].connection = "open") => c1 = c2)
    /\ [][\A t \in BatchTasks :
            (/\ pc[t] \in {"idle", "wait_lock"}
             /\ pc'[t] \notin {"idle", "wait_lock"}
             /\ arg[t].host \in DOMAIN connections)
            => /\ client'[t] = connections[arg[t].host]
               /\ calls'[t].connect = calls[t].connect
               /\ clients' = clients
               /\ connections' = connections]_vars

\* two gets for one device ended with the same session and one connect
C4_Witness ==
    \E t1, t2 \in Called :
        /\ t1 # t2
        /\ arg[t1].host = arg[t2].host
        /\ client[t1] = client[t2]
        /\ calls[t1].connect = 1
        /\ calls[t2].connect = 0
        /\ pc[t1] \in {"running", "done"}
        /\ pc[t2] \in {"running", "done"}
        /\ established[arg[t1].host] = 1

\* C5: execute_on_multiple over N devices returns N results, the i-th with the
\* label of the i-th device, the command issued and what the i-th device's
\* operation produced, whatever the order of completion.
C5_ResultsInInputOrder ==
    batch.state = "returned" =>
        /\ Len(batch.results) = Len(batch.hosts)
        /\ \A i \in 1..Len(batch.hosts) :
              /\ batch.results[i].switch = batch.hostnames[i]
              /\ batch.results[i].command = batch.command
              /\ batch.results[i].success = (outcome[i].kind = "return")
              /\ batch.results[i].output = outcome[i].output

\* a batch over two devices returned although the second device finished first
C5_Witness ==
    /\ batch.state = "returned"
    /\ Len(batch.hosts) = 2
    /\ batch.hosts[1] # batch.hosts[2]
    /\ batch.hostnames # batch.hosts
    /\ doneOrder = <<2, 1>>
    /\ outcome[1].kind # outcome[2].kind

\* C6: a failing device never aborts the batch: execute_on_multiple returns
\* only after every per-device operation has completed, the failed device has
\* success=false with an error, and the others are successes.
C6_FailureDoesNotAbortBatch ==
    /\ batch.state # "raised"
    /\ batch.state = "returned" =>
          /\ \A t \in Gathered : pc[t] = "done"
          /\ Len(batch.results) = Cardinality(Gathered)
          /\ \A t \in Gathered :
                IF outcome[t].kind = "raise"
                THEN /\ batch.results[t].success = FALSE
                     /\ batch.results[t].error # <<>>
                     /\ batch.results[t].output = <<>>
                ELSE /\ batch.results[t].success = TRUE
                     /\ batch.results[t].error = <<>>
          /\ Cardinality({i \in 1..Len(batch.results) : batch.results[i].success})
               = Cardinality(Gathered)
                   - Cardinality({t \in Gathered : outcome[t].kind = "raise"})

\* a batch of two returned with one device failed in execution and one success
C6_Witness ==
    /\ batch.state = "returned"
    /\ \E k, j \in Gathered :
          /\ outcome[k].kind = "raise"
          /\ outcome[k].exc = "CommandExecutionError"
          /\ batch.results[k].success = FALSE
          /\ outcome[j].kind = "return"
          /\ batch.results[j].success = TRUE

\* C7: the progress of one device's operation never has to wait for another
\* device's connect or command to finish.
C7_NoWaitingOnOtherDevice ==
    \A t1, t2 \in Called :
        ~(/\ pc[t1] = "wait_lock"
          /\ lock = t2
          /\ pc[t2] \in {"connecting", "running"}
          /\ arg[t1].host # arg[t2].host)

\* C7 as amended: the pool lock is never held while a command runs, so a
\* device's command holds back no other device; the lock is held only by
\* get_connection during its connect and by close_all, and then every other
\* lookup waits.
C7_OnlyConnectHoldsBack ==
    /\ \A t \in Called : pc[t] \in {"running", "done", "wait_lock"} => lock # t
    /\ lock # NoTask =>
          \/ lock = Closer /\ pc[Closer] = "closing"
          \/ lock \in BatchTasks /\ pc[lock] = "connecting"

\* one device's command is running while another device is connecting
C7_Witness ==
    \E t1, t2 \in Called :
        /\ pc[t1] = "running"
        /\ pc[t2] = "connecting"
        /\ lock = t2
        /\ arg[t1].host # arg[t2].host

\* C8: at no time are two command executions in flight on the same device
\* session.
C8_CommandsSerialized ==
    \A t1, t2 \in Called :
        (/\ t1 # t2
         /\ pc[t1] = "running"
         /\ pc[t2] = "running") => client[t1] # client[t2]

\* C9: close_all disconnects every pooled session and leaves the pool empty,
\* also concurrently with get and execute; no connection opened through the
\* pool stays open after it, and the next use of a device creates and
\* connects a fresh session.
C9_CloseAllClosesEverything ==
    /\ [](/\ \A c \in DOMAIN clients :
                clients[c].connection = "open"
                    => \E h \in DOMAIN connections : connections[h] = c
          /\ lock # Closer =>
                \A h \in DOMAIN connections :
                    clients[connections[h]].connection = "open")
    /\ [][(pc[Closer] # "done" /\ pc'[Closer] = "done")
            => /\ connections' = <<>>
               /\ lock' = NoTask
               /\ \A c \in DOMAIN clients' : clients'[c].connection = "None"]_vars
    /\ [][\A t \in BatchTasks :
            (/\ pc[Closer] = "done"
             /\ pc[t] \in {"idle", "wait_lock"}
             /\ pc'[t] \notin {"idle", "wait_lock"}
             /\ arg[t].host \notin DOMAIN connections)
            => /\ client'[t] \notin DOMAIN clients
               /\ client'[t] \in DOMAIN clients'
               /\ clients'[client'[t]].connection = "None"
               /\ pc'[t] = "connecting" \/ outcome'[t].exc = "SSHConnectionError"]_vars

\* close_all ran while a command was in flight on a pooled session of a
\* device, and a later use of that device got a new, connected session
C9_Witness ==
    /\ pc[Closer] = "done"
    /\ \E t1, t2 \in Called :
          /\ arg[t1].host = arg[t2].host
          /\ client[t1] # client[t2]
          /\ pc[t1] = "running"
          /\ clients[client[t1]].connection = "None"
          /\ pc[t2] = "running"
          /\ clients[client[t2]].connection = "open"
          /\ connections[arg[t2].host] = client[t2]

\* C10: the text of the device that reaches the caller, the output of a
\* success as well as the error stream carried in a failure's message, has
\* been passed through the redactor.
C10_DeviceTextRedacted ==
    \A t \in Called :
        pc[t] = "done" =>
            /\ outcome[t].kind = "return"
                  => outcome[t].output = mask_sensitive_output(captured[t].stdout)
            /\ (outcome[t].kind = "raise" /\ outcome[t].exc = "CommandExecutionError")
                  => outcome[t].detail = mask_sensitive_output(captured[t].stderr)

\* a keyword of MaskPatterns followed by its separator occurs in x:
\* password, key or secret followed by = or :, md5 followed by a number,
\* community followed by whitespace
ContainsSensitiveKey(x) ==
    \E n \in 1..Len(MaskPatterns), i \in 1..Len(x) :
        Group2Start(MaskPatterns[n], x, i) # 0

\* C11: redaction is idempotent, mask_sensitive_output applied to its own
\* result returns that result, and a text that contains no sensitive-key
\* pattern is returned unchanged.
C11_RedactionIdempotent ==
    [][/\ rpasses >= 1 => rtext' = rtext
       /\ ~ContainsSensitiveKey(rtext) => rtext' = rtext]_vars

\* a text the first application changed has been redacted a second time
C11_Witness ==
    /\ rpasses = 2
    /\ rtext # rinput
    /\ ContainsSensitiveKey(rinput)

-----------------------------------------------------------------------------
(* Properties of the parsers and issue extractors                          *)

\* the stripped lines of the command output
StrippedLines == StrippedLinesOf(rawOutput)

\* no line of the output begins the way a row of the table begins: with a
\* digit (OSPF, BGP), with nve (NVE), with Eth or Po (interface counters)
NoRowBegins ==
    \A i \in 1..Len(StrippedLines) :
        LET line == StrippedLines[i]
        IN  \/ line = <<>>
            \/ /\ line[1] \notin Digits
               /\ ~StartsWith(line, <<"n", "v", "e">>)
               /\ ~StartsWith(line, <<"E", "t", "h">>)
               /\ ~StartsWith(line, <<"P", "o">>)

\* C12: every parsed health result has total = healthy + problem with the
\* counts derived from the record list: total_count is the number of records,
\* the healthy count the number of records whose health flag is true,
\* interfaces_with_errors the number of interface records with has_errors;
\* for an output without a matching line all counts are 0.
C12_CountsDerivedFromRecords ==
    /\ parsed.kind = "ospf" =>
          /\ parsed.total_count = Len(parsed.neighbors)
          /\ parsed.full_count = Len(SelectSeq(parsed.neighbors, LAMBDA n : n.is_healthy))
          /\ parsed.total_count = parsed.full_count + parsed.problem_count
          /\ NoRowBegins =>
                parsed.total_count = 0 /\ parsed.full_count = 0 /\ parsed.problem_count = 0
    /\ parsed.kind = "bgp" =>
          /\ parsed.total_count = Len(parsed.neighbors)
          /\ parsed.established_count = Len(SelectSeq(parsed.neighbors, LAMBDA n : n.is_established))
          /\ parsed.total_count = parsed.established_count + parsed.problem_count
          /\ NoRowBegins =>
                /\ parsed.total_count = 0
                /\ parsed.established_count = 0
                /\ parsed.problem_count = 0
    /\ parsed.kind = "nve" =>
          /\ parsed.total_count = Len(parsed.peers)
          /\ parsed.up_count = Len(SelectSeq(parsed.peers, LAMBDA p : p.is_up))
          /\ parsed.total_count = parsed.up_count + parsed.down_count
          /\ NoRowBegins =>
                parsed.total_count = 0 /\ parsed.up_count = 0 /\ parsed.down_count = 0
    /\ parsed.kind = "interface" =>
          /\ parsed.interfaces_with_errors =
                Len(SelectSeq(parsed.interfaces, LAMBDA i : i.has_errors))
          /\ NoRowBegins => parsed.interfaces_with_errors = 0

\* a table with one healthy and one unhealthy neighbor has been parsed
C12_Witness ==
    /\ parsed.kind = "ospf"
    /\ parsed.total_count = 2
    /\ parsed.full_count = 1
    /\ parsed.problem_count = 1

\* the text of a state field before its first "/", the whole text without one
BeforeSlash(state) ==
    IF \E k \in 1..Len(state) : state[k] = "/"
    THEN SubSeq(state, 1, (CHOOSE k \in 1..Len(state) :
                              state[k] = "/" /\ \A j \in 1..(k - 1) : state[j] # "/") - 1)
    ELSE state

\* the lines of the output that are rows of the OSPF neighbor table
OspfRows == SelectSeq(StrippedLines, LAMBDA line : OSPFNeighbor(line) # <<>>)

\* C13: parse_ospf_neighbors marks a neighbor healthy if and only if its state
\* field, taken before any "/", equals FULL whatever the letter case, and the
\* record keeps the complete state text of the row.
C13_HealthyIffFull ==
    parsed.kind = "ospf" =>
        /\ Len(parsed.neighbors) = Len(OspfRows)
        /\ \A i \in 1..Len(parsed.neighbors) :
              /\ parsed.neighbors[i].state = Fields(OspfRows[i])[3]
              /\ parsed.neighbors[i].is_healthy <=>
                    Lower(BeforeSlash(Fields(OspfRows[i])[3])) = <<"f", "u", "l", "l">>

\* FULL/DR has been parsed as healthy with its state kept, EXSTART/- as unhealthy
C13_Witness ==
    /\ parsed.kind = "ospf"
    /\ Len(parsed.neighbors) = 2
    /\ parsed.neighbors[1].state = <<"F", "U", "L", "L", "/", "D", "R">>
    /\ parsed.neighbors[1].is_healthy
    /\ parsed.neighbors[2].state = <<"E", "X", "S", "T", "A", "R", "T", "/", "-">>
    /\ ~parsed.neighbors[2].is_healthy

\* the lines of the output that are rows of the BGP summary table
BgpRows == SelectSeq(StrippedLines, LAMBDA line : BGPNeighbor(line) # <<>>)

\* C14: parse_bgp_evpn_summary marks a neighbor established if and only if its
\* State/PfxRcd field parses as an integer, and then prefixes_received is that
\* integer; for any other token is_established is false, prefixes_received is
\* 0 and state is the token.
C14_EstablishedIffInteger ==
    parsed.kind = "bgp" =>
        /\ Len(parsed.neighbors) = Len(BgpRows)
        /\ \A i \in 1..Len(parsed.neighbors) :
              LET token == Fields(BgpRows[i])[10]
                  n     == parsed.neighbors[i]
              IN  IF int(token).ok
                  THEN n.is_established /\ n.prefixes_received = int(token).value
                  ELSE /\ ~n.is_established
                       /\ n.prefixes_received = 0
                       /\ n.state = token

\* a row ending in 150 has been parsed as established with 150 prefixes, a row
\* ending in Idle as not established with state Idle
C14_Witness ==
    /\ parsed.kind = "bgp"
    /\ Len(parsed.neighbors) = 2
    /\ parsed.neighbors[1].is_established
    /\ parsed.neighbors[1].prefixes_received = 150
    /\ ~parsed.neighbors[2].is_established
    /\ parsed.neighbors[2].prefixes_received = 0
    /\ parsed.neighbors[2].state = <<"I", "d", "l", "e">>

\* the lines of a vPC brief that report a healthy peer, keep-alive and peer-link
HealthyPeerLines ==
    { <<"P", "e", "e", "r", " ", "s", "t", "a", "t", "u", "s", " ", " ", " ", " ", " ", " ", " ", " ", " ", " ", " ", " ", " ", " ", " ", " ", " ", " ", " ", " ", " ", " ", " ", ":", " ", "p", "e", "e", "r", " ", "a", "d", "j", "a", "c", "e", "n", "c", "y", " ", "f", "o", "r", "m", "e", "d", " ", "o", "k", "\n">>,
      <<"P", "e", "e", "r", " ", "s", "t", "a", "t", "u", "s", " ", ":", " ", "P", "e", "e", "r", " ", "O", "K", "\n">> }

HealthyKeepaliveLines ==
    { <<"v", "P", "C", " ", "k", "e", "e", "p", "-", "a", "l", "i", "v", "e", " ", "s", "t", "a", "t", "u", "s", " ", " ", " ", " ", " ", " ", " ", " ", " ", " ", " ", " ", " ", ":", " ", "p", "e", "e", "r", " ", "i", "s", " ", "a", "l", "i", "v", "e", "\n">>,
      <<"v", "P", "C", " ", "k", "e", "e", "p", "-", "a", "l", "i", "v", "e", " ", "s", "t", "a", "t", "u", "s", " ", ":", " ", "P", "e", "e", "r", " ", "i", "s", " ", "A", "l", "i", "v", "e", "\n">> }

HealthyPeerLinkLines ==
    { <<"1", " ", " ", " ", " ", "P", "o", "5", "0", "0", " ", " ", "u", "p", " ", " ", " ", " ", " ", "1", ",", "5", "9", ",", "1", "3", "4", "-", "1", "6", "2", "\n">>,
      <<"1", " ", "P", "o", "5", "0", "0", " ", "U", "P", " ", "1", "\n">> }

\* C15: parse_vpc_brief sets is_healthy if and only if the peer status
\* contains ok or formed, the keep-alive status contains alive and the detected
\* peer-link state is up; an unhealthy value in any one of the three makes
\* is_healthy false, and an output without a detectable peer-link line gives
\* peer_link_status unknown and is_healthy false.
C15_VpcHealthyIffAllThree ==
    parsed.kind = "vpc" =>
        /\ parsed.is_healthy <=>
              /\ \/ Contains(Lower(parsed.peer_status), <<"o", "k">>)
                 \/ Contains(Lower(parsed.peer_status), <<"f", "o", "r", "m", "e", "d">>)
              /\ Contains(Lower(parsed.peer_keepalive_status), <<"a", "l", "i", "v", "e">>)
              /\ parsed.peer_link_status = <<"u", "p">>
        /\ (\A i \in 1..Len(rawOutput) : PeerLinkAt(rawOutput, i) = <<>>) =>
              /\ parsed.peer_link_status = <<"u", "n", "k", "n", "o", "w", "n">>
              /\ ~parsed.is_healthy
        /\ \A h \in VpcHeads, p \in VpcPeerLines, k \in VpcKeepaliveLines,
              l \in VpcPeerLinkLines :
              rawOutput = h \o p \o k \o l =>
                  (parsed.is_healthy <=> /\ p \in HealthyPeerLines
                                         /\ k \in HealthyKeepaliveLines
                                         /\ l \in HealthyPeerLinkLines)

\* the brief with peer adjacency formed ok, peer is alive and Po500 up has been
\* parsed as healthy
C15_Witness ==
    /\ parsed.kind = "vpc"
    /\ parsed.is_healthy
    /\ parsed.peer_status = <<"p", "e", "e", "r", " ", "a", "d", "j", "a", "c", "e", "n", "c", "y", " ", "f", "o", "r", "m", "e", "d", " ", "o", "k">>
    /\ parsed.peer_keepalive_status = <<"p", "e", "e", "r", " ", "i", "s", " ", "a", "l", "i", "v", "e">>
    /\ parsed.peer_link_status = <<"u", "p">>
    /\ parsed.domain_id = 5

\* the line is a row of a counter table: an interface name followed by one
\* or more counters
IsCounterLine(line) ==
    LET f == Fields(line)
    IN  /\ Len(f) >= 2
        /\ IsInterfaceName(f[1])
        /\ \A k \in 2..Len(f) : IsDigits(f[k])

\* the counters of all the rows of the interface `name`, row after row
RECURSIVE CountersOf(_, _)
CountersOf(name, lines) ==
    IF lines = <<>> THEN <<>>
    ELSE (IF IsCounterLine(Head(lines)) /\ Fields(Head(lines))[1] = name
          THEN [k \in 1..(Len(Fields(Head(lines))) - 1) |-> ToInt(Fields(Head(lines))[k + 1])]
          ELSE <<>>)
         \o CountersOf(name, Tail(lines))

\* C16: parse_interface_counters produces exactly one record per interface
\* name; the counter rows of several tables for one interface are summed into
\* its record, and the record has has_errors if and only if at least one
\* counter on at least one row of the interface is nonzero.
C16_OneSummedRecordPerInterface ==
    parsed.kind = "interface" =>
        /\ {parsed.interfaces[i].name : i \in 1..Len(parsed.interfaces)} =
              {Fields(StrippedLines[i])[1] :
                  i \in {j \in 1..Len(StrippedLines) : IsCounterLine(StrippedLines[j])}}
        /\ \A i, j \in 1..Len(parsed.interfaces) :
              parsed.interfaces[i].name = parsed.interfaces[j].name => i = j
        /\ \A i \in 1..Len(parsed.interfaces) :
              LET r        == parsed.interfaces[i]
                  counters == CountersOf(r.name, StrippedLines)
              IN  /\ r.input_errors + r.output_errors + r.crc_errors
                        + r.input_discards + r.output_discards = Sum(counters)
                  /\ r.has_errors <=> \E k \in 1..Len(counters) : counters[k] # 0

\* the unhealthy records of the parsed result, in the order of its list
UnhealthyNeighbors ==
    CASE parsed.kind = "ospf" -> SelectSeq(parsed.neighbors, LAMBDA n : ~n.is_healthy)
      [] parsed.kind = "bgp"  -> SelectSeq(parsed.neighbors, LAMBDA n : ~n.is_established)

InterfacesWithErrors == SelectSeq(parsed.interfaces, LAMBDA i : i.has_errors)

\* the issues are one per name, in the order of the names, each naming its
\* record, followed by one more issue when `total` is zero
OnePerRecord(list, names, total) ==
    /\ Len(list) = Len(names) + (IF total = 0 THEN 1 ELSE 0)
    /\ \A i \in 1..Len(names) :
          /\ list[i].switch = parsed.switch
          /\ list[i].about[1] = names[i]
    /\ total = 0 => /\ list[Len(list)].switch = parsed.switch
                    /\ list[Len(list)].about = <<>>

-----------------------------------------------------------------------------
(* Properties of my-tool                                                   *)

\* the command that returned last is cache clear
ClearReturned ==
    /\ cachePc = "returned"
    /\ cacheLog[Len(cacheLog)].command = "clear"

\* C18: cache clear exits with code 0 whether or not the cache file exists,
\* after it returns the cache file does not exist, and a second run right
\* after the first leaves the state the first run left.
C18_CacheClearIdempotent ==
    /\ [](/\ \A i \in 1..Len(cacheLog) :
                cacheLog[i].command = "clear" => cacheLog[i].exit_code = 0
          /\ ClearReturned => cacheFile = "absent")
    /\ [][(ClearReturned /\ ClearReturned' /\ cacheLog' # cacheLog)
             => cacheFile' = cacheFile]_vars

\* cache clear ran on an existing cache file and then once more
C18_Witness ==
    /\ ClearReturned
    /\ Len(cacheLog) >= 2
    /\ cacheLog[Len(cacheLog) - 1] = Ran("clear", <<"Cache cleared.">>)
    /\ cacheLog[Len(cacheLog)] = Ran("clear", <<"Cache is already empty.">>)
    /\ cacheFile = "absent"

-----------------------------------------------------------------------------
(* Properties of the standalone device session                             *)

\* no disconnect has been started on a connected session
NeverDisconnected ==
    /\ ~disconnected
    /\ \A c \in Callers : callers[c].pc # "closing"

\* C19: on a session that starts Unconnected and is only connected and
\* executed on, at most one transport connection is ever established, and
\* every command that is running runs on it, the stored connection.
C19_ConnectsExactlyOnce ==
    NeverDisconnected =>
        /\ Len(transport) <= 1
        /\ \A c \in Callers :
              callers[c].pc = "running" => callers[c].conn = connection

\* this step is the return of an awaited asyncssh.connect
ConnectStep ==
    \E c \in Callers :
        /\ callers[c].pc \in {"connecting", "lazy_connecting"}
        /\ callers'[c].pc \notin {"connecting", "lazy_connecting"}

\* this step is the end of a disconnect that closed a connection
DisconnectStep ==
    \E c \in Callers : callers[c].pc = "closing" /\ callers'[c].pc = "idle"

\* C20 as stated: only connect leaves Unconnected, only disconnect leaves
\* Connected, and a session that has been disconnected stays without a
\* connection whatever is called on it afterwards.
C20_ClosedIsFinal ==
    [][/\ connection = None /\ connection' # None => ConnectStep
       /\ connection # None /\ connection' = None => DisconnectStep
       /\ disconnected => connection' = None]_vars

\* C20, amended: only connect (called directly or by execute_command) leaves
\* Unconnected, and it stores a transport connection established by that
\* step; only disconnect leaves Connected; a completed disconnect leaves the
\* session Unconnected, the state it was constructed in.
C20_DisconnectReturnsToUnconnected ==
    [][/\ connection = None /\ connection' # None =>
            /\ ConnectStep
            /\ Len(transport') = Len(transport) + 1
            /\ connection' = Len(transport')
            /\ transport'[connection'].state = "open"
       /\ connection # None /\ connection' = None => DisconnectStep
       /\ DisconnectStep => connection' = None]_vars

\* a session that was disconnected holds a new, open connection
C20_Witness ==
    /\ disconnected
    /\ connection # None
    /\ transport[connection].state = "open"
    /\ \E k \in 1..Len(transport) : transport[k].state = "closed"

\* this step is connect() of caller c raising for the missing key file
KeyFileMissing(c) ==
    /\ callers[c].pc = "idle"
    /\ callers'[c].pc = "idle"
    /\ callers'[c] # callers[c]
    /\ callers'[c].outcome.msg = "SSH key file not found"

\* this step is the awaited asyncssh.connect of caller c failing
ConnectFailed(c) ==
    /\ callers[c].pc \in {"connecting", "lazy_connecting"}
    /\ callers'[c].pc = "idle"
    /\ callers'[c].outcome.kind = "raise"

\* C21: a connect that fails raises SSHConnectionError and the session is
\* Unconnected afterwards; for the missing key file no asyncssh.connect has
\* been started, for a timeout, asyncssh.Error or OSError one has.
C21_ConnectFailureLeavesUnconnected ==
    [][\A c \in Callers :
          /\ KeyFileMissing(c) =>
                /\ callers'[c].outcome.exc = "SSHConnectionError"
                /\ attempts' = attempts
                /\ connection' = None
          /\ ConnectFailed(c) =>
                /\ callers'[c].outcome.exc = "SSHConnectionError"
                /\ attempts > 0
                /\ connection' = None]_vars

\* the run came back without a result, or with one execute_command rejects
RunFailed(r) ==
    \/ r.kind \in {"TimeoutError", "asyncssh.Error"}
    \/ r.kind = "completed" /\ r.exit_status # 0 /\ r.stderr # <<>>

\* C22: an execute_command whose run came back raises CommandExecutionError
\* exactly when the run timed out, the transport raised, or the exit status
\* is non-zero with a non-empty stderr, which the message then carries; in
\* every other case it returns the redacted stdout.
C22_CommandExecutionErrorExactlyWhen ==
    \A c \in Callers :
        callers[c].pc = "idle" /\ callers[c].reply # NoReply =>
            LET r == callers[c].reply
                o == callers[c].outcome
            IN  /\ (o.kind = "raise" /\ o.exc = "CommandExecutionError") <=> RunFailed(r)
                /\ RunFailed(r) /\ r.kind = "completed" => o.detail = r.stderr
                /\ ~RunFailed(r) =>
                      /\ o.kind = "return"
                      /\ o.output = mask_sensitive_output(r.stdout)

\* a command that exited with a non-zero status and an empty stderr returned
C22_Witness ==
    \E c \in Callers :
        /\ callers[c].pc = "idle"
        /\ callers[c].reply.kind = "completed"
        /\ callers[c].reply.exit_status # 0
        /\ callers[c].reply.stderr = <<>>
        /\ callers[c].outcome.kind = "return"

-----------------------------------------------------------------------------
(* Further properties of the pool                                          *)

\* C23: every coroutine of the pool makes at most one run, on the session of
\* its own device; one whose execute_command failed with
\* CommandExecutionError has made exactly one; the line of the run is
\* 'terminal length 0 ; ' followed by the caller's command; the runs of
\* execute_on_multiple are at most one per listed host.
C23_OneRunPerExecute ==
    /\ \A t \in Tasks :
          /\ calls[t].run <= 1
          /\ calls[t].run = 1 <=> pc[t] = "running" \/ captured[t] # NoCapture
                                  \/ (outcome[t].kind = "raise"
                                      /\ outcome[t].exc = "CommandExecutionError")
          /\ calls[t].run = 1 =>
                calls[t].line = <<"t", "e", "r", "m", "i", "n", "a", "l", " ", "l", "e", "n", "g", "t", "h", " ", "0", " ", ";", " ">> \o arg[t].command
          /\ calls[t].run = 1 => clients[client[t]].host = arg[t].host
          /\ calls[t].run = 0 => calls[t].line = <<>>
    /\ Cardinality({t \in BatchTasks : calls[t].run = 1}) <= Len(batch.hosts)

\* a command of a batch has failed at the transport after its one run
C23_Witness ==
    \E t \in BatchTasks :
        /\ pc[t] = "done"
        /\ outcome[t].kind = "raise"
        /\ outcome[t].exc = "CommandExecutionError"
        /\ outcome[t].msg = "Command timed out"
        /\ calls[t].run = 1

\* the execute_command of coroutine t has failed at the transport
FailedAtTransport(t) ==
    /\ pc[t] = "done"
    /\ outcome[t].kind = "raise"
    /\ outcome[t].exc = "CommandExecutionError"

\* this step takes a session out of the pool or closes its connection
SessionLeaves ==
    \/ \E h \in DOMAIN connections : h \notin DOMAIN connections'
    \/ \E c \in DOMAIN clients :
          clients[c].connection = "open" /\ clients'[c].connection # "open"

\* this step is one of close_all
CloseAllStep ==
    /\ pc[Closer] \in {"idle", "wait_lock", "closing"}
    /\ \A t \in BatchTasks : pc'[t] = pc[t]

\* C24: only close_all takes a session out of the pool or closes it; the
\* step in which a run fails, times out or raises leaves the pool and its
\* sessions as they are; and a command for a device whose pooled session has
\* had such a failure gets that session and makes no connect.
C24_FailureKeepsSession ==
    [][/\ SessionLeaves => CloseAllStep
       /\ \A t \in BatchTasks :
             pc[t] = "running" /\ pc'[t] = "done" /\ outcome'[t].kind = "raise" =>
                /\ connections' = connections
                /\ clients' = clients
                /\ established' = established
       /\ \A t1, t2 \in BatchTasks :
             (/\ FailedAtTransport(t1)
              /\ arg[t2].host \in DOMAIN connections
              /\ connections[arg[t2].host] = client[t1]
              /\ pc[t2] \in {"idle", "wait_lock"}
              /\ pc'[t2] \notin {"idle", "wait_lock"})
             => /\ client'[t2] = client[t1]
                /\ calls'[t2].connect = 0
                /\ established' = established]_vars

\* the session of a failed command is still pooled and open, and another
\* command for its device is about to be issued
C24_Witness ==
    \E t1, t2 \in BatchTasks :
        /\ FailedAtTransport(t1)
        /\ pc[t2] = "idle"
        /\ arg[t2].host = arg[t1].host
        /\ arg[t1].host \in DOMAIN connections
        /\ connections[arg[t1].host] = client[t1]
        /\ clients[client[t1]].connection = "open"

\* this step is the connect of coroutine t failing inside get_connection
ConnectFailsInPool(t) ==
    /\ pc[t] \in {"idle", "wait_lock", "connecting"}
    /\ pc'[t] = "done"
    /\ outcome'[t].kind = "raise"
    /\ outcome'[t].exc = "SSHConnectionError"

\* the get_connection of coroutine t has failed in connect
FailedToConnect(t) ==
    /\ pc[t] = "done"
    /\ outcome[t].kind = "raise"
    /\ outcome[t].exc = "SSHConnectionError"

\* C25: the step in which connect fails inside get_connection stores no
\* session for the device, leaves the sessions of the pool as they are and
\* the lock free; a get for that device after it finds no session and starts
\* a connect of its own.
C25_FailedConnectStoresNothing ==
    [][/\ \A t \in BatchTasks :
             ConnectFailsInPool(t) =>
                /\ arg[t].host \notin DOMAIN connections'
                /\ connections' = connections
                /\ \A c \in DOMAIN clients : clients'[c] = clients[c]
                /\ established' = established
                /\ lock' = NoTask
       /\ \A t1, t2 \in BatchTasks :
             (/\ FailedToConnect(t1)
              /\ arg[t2].host = arg[t1].host
              /\ arg[t2].host \notin DOMAIN connections
              /\ pc[t2] \in {"idle", "wait_lock"}
              /\ pc'[t2] \notin {"idle", "wait_lock"})
             => /\ client'[t2] # client[t1]
                /\ \/ pc'[t2] = "connecting" /\ calls'[t2].connect = 1
                   \/ ConnectFailsInPool(t2) /\ calls'[t2].connect = 0]_vars

\* after a failed connect for a device a second get for it is connecting
C25_Witness ==
    \E t1, t2 \in BatchTasks :
        /\ FailedToConnect(t1)
        /\ outcome[t1].msg = "Connection timed out"
        /\ arg[t2].host = arg[t1].host
        /\ pc[t2] = "connecting"
        /\ calls[t2].connect = 1
        /\ client[t2] # client[t1]
        /\ lock = t2

-----------------------------------------------------------------------------
(* Further properties of the command validator                             *)

\* the verbs of commands that change the device
MutatingVerbs ==
    { <<"c", "o", "n", "f">>, <<"c", "o", "n", "f", "i", "g", "u", "r", "e">>, <<"c", "o", "p", "y">>, <<"d", "e", "l", "e", "t", "e">>, <<"w", "r", "i", "t", "e">>, <<"r", "e", "l", "o", "a", "d">>,
      <<"s", "h", "u", "t", "d", "o", "w", "n">>, <<"n", "o">>, <<"c", "l", "e", "a", "r">>, <<"d", "e", "b", "u", "g">> }

\* the commands of a line, which ';' separates
RECURSIVE CommandsOf(_)
CommandsOf(line) ==
    LET k == Find(line, 1, ";")
    IN  IF k > Len(line) THEN <<line>>
        ELSE <<SubSeq(line, 1, k - 1)>> \o CommandsOf(SubSeq(line, k + 1, Len(line)))

\* the first word of every command of the line, lower-cased
VerbsOf(line) ==
    LET cmds == CommandsOf(Lower(line))
    IN  {Fields(cmds[i])[1] : i \in {j \in 1..Len(cmds) : Fields(cmds[j]) # <<>>}}

\* C26: for a command validate_command accepts, no command of the line
\* 'terminal length 0 ; <command>' begins with a mutating verb.
C26_TransmittedLineReadOnly ==
    verdict = "ok" => VerbsOf(FullCommand(vcmd)) \cap MutatingVerbs = {}

\* C27: validate_command accepts a command exactly when its trimmed,
\* lower-cased form has an allow-listed prefix; no command with such a
\* prefix matches a denylist pattern.
C27_DenylistNeverDecides ==
    verdict # "pending" =>
        LET cmd == Lower(Strip(vcmd))
        IN  /\ verdict = "ok" <=> HasAllowedPrefix(cmd)
            /\ HasAllowedPrefix(cmd) =>
                  \A i \in 1..Len(BLOCKED_COMMAND_PATTERNS) :
                      ~ReMatch(BLOCKED_COMMAND_PATTERNS[i], cmd)

\* an accepted command that names a denylisted verb after its prefix
C27_Witness ==
    /\ verdict = "ok"
    /\ \E i \in 1..Len(vcmd) : LitAt(Lower(vcmd), i, <<"s", "h", "u", "t", "d", "o", "w", "n">>)

-----------------------------------------------------------------------------
(* Further properties of the parsers and issue extractors                  *)

\* the values the two patterns capture on the rows of the interface `name`
RECURSIVE CapturedOf(_, _)
CapturedOf(name, lines) ==
    IF lines = <<>> THEN <<>>
    ELSE (IF CounterRow(Head(lines)) # <<>> /\ CounterRow(Head(lines))[1].name = name
          THEN CounterRow(Head(lines))[1].values
          ELSE <<>>)
         \o CapturedOf(name, Tail(lines))

\* C28: every record of parse_interface_counters has its captured counter
\* values summed in input_errors, 0 in output_errors, crc_errors,
\* input_discards and output_discards, and has_errors exactly when
\* input_errors > 0.
C28_EverythingInInputErrors ==
    parsed.kind = "interface" =>
        \A i \in 1..Len(parsed.interfaces) :
            LET r == parsed.interfaces[i]
            IN  /\ r.input_errors = Sum(CapturedOf(r.name, StrippedLines))
                /\ r.output_errors = 0
                /\ r.crc_errors = 0
                /\ r.input_discards = 0
                /\ r.output_discards = 0
                /\ r.has_errors <=> r.input_errors > 0

\* a record with errors next to a record whose counters are all zero
C28_Witness ==
    /\ parsed.kind = "interface"
    /\ \E i, j \in 1..Len(parsed.interfaces) :
          /\ parsed.interfaces[i].input_errors > 0
          /\ parsed.interfaces[i].has_errors
          /\ parsed.interfaces[j].input_errors = 0
          /\ ~parsed.interfaces[j].has_errors

\* the conditions of a healthy vPC that the status fails, in their order
FailedConditions ==
    SelectSeq(<<"peer", "keepalive", "peer-link">>,
              LAMBDA c :
                  CASE c = "peer" ->
                          /\ ~Contains(Lower(parsed.peer_status), <<"o", "k">>)
                          /\ ~Contains(Lower(parsed.peer_status), <<"f", "o", "r", "m", "e", "d">>)
                    [] c = "keepalive" ->
                          ~Contains(Lower(parsed.peer_keepalive_status), <<"a", "l", "i", "v", "e">>)
                    [] c = "peer-link" -> parsed.peer_link_status # <<"u", "p">>)

\* the issue get_vpc_issues words for a failed condition
IssueFor(c) ==
    CASE c = "peer" -> [text |-> "vPC peer status is '{}' (not OK)",
                        about |-> <<parsed.peer_status>>]
      [] c = "keepalive" -> [text |-> "vPC keepalive status is '{}'",
                             about |-> <<parsed.peer_keepalive_status>>]
      [] c = "peer-link" -> [text |-> "vPC peer-link is {}",
                             about |-> <<parsed.peer_link_status>>]

\* C29: for a result of parse_vpc_brief, get_vpc_issues returns no issue
\* exactly when is_healthy is true, and otherwise one issue for each of the
\* conditions peer status, keep-alive, peer-link that fails, in that order.
C29_VpcIssuesIffUnhealthy ==
    parsed.kind = "vpc" /\ issues.returned =>
        /\ issues.list = <<>> <=> parsed.is_healthy
        /\ Len(issues.list) = Len(FailedConditions)
        /\ \A i \in 1..Len(issues.list) :
              /\ issues.list[i].switch = parsed.switch
              /\ issues.list[i].text = IssueFor(FailedConditions[i]).text
              /\ issues.list[i].about = IssueFor(FailedConditions[i]).about

\* a status whose keep-alive and peer-link fail gave two issues
C29_Witness ==
    /\ parsed.kind = "vpc"
    /\ issues.returned
    /\ ~parsed.is_healthy
    /\ FailedConditions = <<"keepalive", "peer-link">>
    /\ Len(issues.list) = 2

-----------------------------------------------------------------------------
(* Properties of call_llm                                                  *)

\* attempt i exited with status 0
ExitedWithZero(i) == tried[i].kind = "exited" /\ tried[i].returncode = 0

\* attempt i exited with status 0 and its stdout is valid UTF-8
Succeeded(i) == ExitedWithZero(i) /\ decode(tried[i].stdout) # <<>>

\* the sleeps so far are those after the failed attempts in `failed`: 1, 2,
\* 4, ... seconds, none after attempt max_retries
BackoffBetween(failed) ==
    /\ Len(sleeps) = Cardinality({i \in failed : i < maxRetries})
    /\ \A j \in 1..Len(sleeps) : sleeps[j] = 2 ^ (j - 1)

\* a prompt file exists only while its attempt is under way
PromptFilesRemoved ==
    /\ promptFiles \subseteq {attempt}
    /\ llmPc # "communicating" => promptFiles = {}

====
